---- MODULE Spec2Model ----
(***************************************************************************)
(* Verification model of the view builders of the ctd repository:         *)
(*   - create_symlink_safe and its callers (scripts/view_utils.py,        *)
(*     scripts/build_ema.py),                                              *)
(*   - the CTD filename parser and the CTD view                           *)
(*     (scripts/generate_ctd_view.py),                                     *)
(*   - the By-Date view (scripts/generate_date_view.py),                  *)
(*   - the ATC trie builder (scripts/build_ema.py).                       *)
(* Strings are sequences of tokens (characters, or whole words where only *)
(* the whole word matters), paths are sequences of names.                 *)
(***************************************************************************)
EXTENDS Integers, Sequences, FiniteSets, TLC

VARIABLES
    mode,       \* which script runs: "ema" | "ctd" | "date" | "parse" | "atc"
    phase,      \* position of the script: "run1" | "run2" | "done" (or "idle")
    fs,         \* EMA file system: path -> entry (link paths and raw paths)
    dirs,       \* EMA file system: state of each parent directory of a link
    stats,      \* the ViewStatistics object of the current build_ema run
    idx,        \* index of the next document of create_files_symlinks
    crashed,    \* an exception left create_symlink_safe and ended the run
    last,       \* the last create_symlink_safe call: arguments, pre-state, result
    run1,       \* what the first run left: file system and statistics
    run2,       \* what the second run left
    calls,      \* number of direct create_symlink_safe calls made after the runs
    pname,      \* parser: the file name given to parse_ctd_info
    paccession, \* parser: the accession given to parse_ctd_info
    presult,    \* parser: what parse_ctd_info returned ("pending" before the call)
    vsrc,       \* CTD/date view: the source listing and options of the run
    vtree,      \* CTD/date view: the target directory and the counters of the run
    vscan,      \* CTD/date view: what the scan collected
    vrun1,      \* CTD/date view: target directory and counters after the first run
    vrun2,      \* CTD/date view: the same after the second run
    aprods,     \* ATC trie: the qualifying products, in the order of the dict
    atrie,      \* ATC trie: what build_atc_trie returned, once it was called
    bld,        \* build_ema: arguments, reference data, accession directory, result
    orch,       \* build.py main: options, planned steps, steps run, failures
    fin,        \* a helper function on its own: its argument
    fout        \* a helper function on its own: its result, once it was called

emaVars == <<fs, dirs, stats, idx, crashed, last, run1, run2, calls>>

parseVars == <<pname, paccession, presult>>
viewVars == <<vsrc, vtree, vscan, vrun1, vrun2>>
atcVars == <<aprods, atrie>>
buildVars == <<bld, orch>>
pureVars == <<fin, fout>>
restVars == <<buildVars, pureVars>>

\* Direct calls of create_symlink_safe explored after the two runs.
MaxCalls == 1

\* Longest file name (in tokens) given to the parser.
MaxNameLen == 6
MaxFiles == 4
MaxProducts == 4

(***************************************************************************)
(* Generic helpers                                                         *)
(***************************************************************************)
Last(s) == s[Len(s)]

Front(s) == SubSeq(s, 1, Len(s) - 1)

RECURSIVE CommonPrefixLen(_, _)
CommonPrefixLen(a, b) ==
    IF a = <<>> \/ b = <<>> \/ a[1] # b[1] THEN 0
    ELSE 1 + CommonPrefixLen(Tail(a), Tail(b))

(***************************************************************************)
(* Paths of the EMA accession (build_ema.py), relative to documents/.     *)
(***************************************************************************)
ProductDir1 == <<"RDCP-E26-EMA", "files", "EMEA-H-C-1", "EMA">>
ProductDir2 == <<"RDCP-E26-EMA", "files", "EMEA-H-C-2", "EMA">>
Dirs == {ProductDir1, ProductDir2}

LinkA == Append(ProductDir1, "a.pdf")
LinkB == Append(ProductDir1, "b.pdf")
LinkC == Append(ProductDir2, "c.pdf")
LinkPaths == {LinkA, LinkB, LinkC}

\* Document URLs (netloc and path) and the raw files they are stored in.
Url1 == <<"www.ema.europa.eu", "a.pdf">>
Url2 == <<"www.ema.europa.eu", "b.pdf">>

\* url_to_raw_path(url): RAW_DIR / (netloc + path)
url_to_raw_path(url) == <<"_raw">> \o url

Raw1 == url_to_raw_path(Url1)
Raw2 == url_to_raw_path(Url2)
RawPaths == {Raw1, Raw2}

AllPaths == LinkPaths \cup RawPaths

Parent(p) == Front(p)

\* os.path.relpath(target, start): ".." for every component of start below the
\* common prefix, then the rest of target.
RelPath(target, start) ==
    LET c == CommonPrefixLen(target, start)
    IN  [i \in 1..(Len(start) - c) |-> ".."] \o SubSeq(target, c + 1, Len(target))

\* What the kernel does with a relative link text read in directory `start`.
RECURSIVE Resolve(_, _)
Resolve(start, rel) ==
    IF rel = <<>> THEN start
    ELSE IF rel[1] = ".." THEN Resolve(IF start = <<>> THEN <<>> ELSE Front(start), Tail(rel))
    ELSE Resolve(Append(start, rel[1]), Tail(rel))

NoEntry == [kind |-> "none", text |-> <<>>]
FileEntry == [kind |-> "file", text |-> <<>>]
DirEntry == [kind |-> "dir", text |-> <<>>]
SymlinkEntry(text) == [kind |-> "symlink", text |-> text]
\* A path in a directory that may not be searched: stat fails with EACCES.
DeniedEntry == [kind |-> "denied", text |-> <<>>]

\* Path.exists() raises the OSError of stat unless it is ENOENT, ENOTDIR,
\* EBADF or ELOOP.
StatRaises(fsys, p) == p \in DOMAIN fsys /\ fsys[p].kind = "denied"

\* Path.is_symlink()
IsSymlink(fsys, p) == fsys[p].kind = "symlink"

\* Path.exists(): follows symlinks, False for a broken link.
RECURSIVE ExistsFuel(_, _, _)
ExistsFuel(fsys, p, fuel) ==
    IF p \notin DOMAIN fsys THEN FALSE
    ELSE IF fsys[p].kind \in {"file", "dir"} THEN TRUE
    ELSE IF fsys[p].kind = "symlink" /\ fuel > 0
         THEN ExistsFuel(fsys, Resolve(Parent(p), fsys[p].text), fuel - 1)
    ELSE FALSE

Exists(fsys, p) == ExistsFuel(fsys, p, Cardinality(DOMAIN fsys))

\* link.parent.mkdir(parents=True, exist_ok=True): raises OSError when a
\* component is a regular file ("file") or may not be created ("denied").
MkdirRaises(ds, d) == ds[d] \in {"file", "denied"}

MkdirParents(ds, d) == [ds EXCEPT ![d] = IF @ = "absent" THEN "dir" ELSE @]

DirExists(ds, d) == ds[d] \in {"dir", "rodir"}

\* link.symlink_to(rel): FileExistsError when the path is occupied,
\* PermissionError when the directory is read-only; both are OSError.
SymlinkRaises(fsys, ds, link) == fsys[link].kind # "none" \/ ds[Parent(link)] = "rodir"

\* A symlink_to that also materialises the file the link points at.
SymlinkToAndTouch(fsys, link, text) ==
    [fsys EXCEPT ![link] = SymlinkEntry(text), ![Resolve(Parent(link), text)] = FileEntry]

SymlinkTo(fsys, link, text) == [fsys EXCEPT ![link] = SymlinkEntry(text)]

EmptyStats ==
    [dirs_created |-> 0, symlinks_created |-> 0, symlinks_skipped |-> 0,
     symlinks_broken |-> 0, errors |-> <<>>]

\* The result of one create_symlink_safe call: the file system it leaves, the
\* statistics, the return value, and whether an exception left the function.
Outcome(fsys, ds, st, ret, raised) ==
    [fs |-> fsys, dirs |-> ds, stats |-> st, ret |-> ret, raised |-> raised]

\* The try block of create_symlink_safe.
TrySymlink(fsys, ds, st, target, link) ==
    IF SymlinkRaises(fsys, ds, link)
    THEN Outcome(fsys, ds,
                 [st EXCEPT !.errors = Append(@, <<"Failed to create symlink", link>>)],
                 FALSE, FALSE)
    ELSE LET fs2 == SymlinkTo(fsys, link, RelPath(target, Parent(link)))
             st2 == [st EXCEPT !.symlinks_created = @ + 1]
             st3 == IF ~Exists(fs2, target)
                    THEN [st2 EXCEPT !.symlinks_broken = @ + 1] ELSE st2
         IN  IF StatRaises(fs2, target)
             THEN Outcome(fs2, ds,
                          [st2 EXCEPT !.errors = Append(@, <<"Failed to create symlink", link>>)],
                          FALSE, FALSE)
             ELSE Outcome(fs2, ds, st3, TRUE, FALSE)

create_symlink_safe(fsys, ds, st, target, link, allow_broken) ==
    IF MkdirRaises(ds, Parent(link))
    THEN Outcome(fsys, ds, st, FALSE, TRUE)
    ELSE LET ds2 == MkdirParents(ds, Parent(link))
             st1 == IF ~DirExists(ds2, Parent(link))
                    THEN [st EXCEPT !.dirs_created = @ + 1] ELSE st
         IN  IF IsSymlink(fsys, link)
             THEN Outcome(fsys, ds2, [st1 EXCEPT !.symlinks_skipped = @ + 1], FALSE, FALSE)
             ELSE IF ~allow_broken /\ StatRaises(fsys, target)
             THEN Outcome(fsys, ds2, st1, FALSE, TRUE)
             ELSE IF ~allow_broken /\ ~Exists(fsys, target)
             THEN Outcome(fsys, ds2,
                          [st1 EXCEPT !.errors = Append(@, <<"Target does not exist", target>>)],
                          FALSE, FALSE)
             ELSE TrySymlink(fsys, ds2, st1, target, link)

(***************************************************************************)
(* The CTD filename parser (generate_ctd_view.py).  A name is a sequence  *)
(* of tokens.  One-character tokens: digits, ".", "-", " ", letters.      *)
(* Word tokens stand for a run of characters that no pattern can split:   *)
(* "Module" (any letter case) and the literals of the manual mappings.    *)
(***************************************************************************)
Digits15 == {"1", "2", "3", "4", "5"}
Digits09 == Digits15 \cup {"0", "6", "7", "8", "9"}
UpperLetters == {"P", "S"}
LowerLetters == {"p", "s"}

IsSpace(t) == t = " "

\* [A-Z], with or without re.IGNORECASE
IsLetterAZ(t, ignorecase) == t \in UpperLetters \/ (ignorecase /\ t \in LowerLetters)

\* Positions of the dots of a token sequence, and its dot-delimited components.
RECURSIVE SplitDots(_)
SplitDots(c) ==
    IF \A i \in 1..Len(c) : c[i] # "." THEN <<c>>
    ELSE LET d == CHOOSE i \in 1..Len(c) : c[i] = "." /\ \A j \in 1..(i - 1) : c[j] # "."
         IN  <<SubSeq(c, 1, d - 1)>> \o SplitDots(SubSeq(c, d + 1, Len(c)))

IsDigitRun(x) == x # <<>> /\ \A i \in 1..Len(x) : x[i] \in Digits09

\* Full match of [1-5](?:\.[0-9]+)*(?:\.[A-Z](?:\.[0-9]+)*)?
IsCtdCode(c, ignorecase) ==
    /\ c # <<>>
    /\ LET parts == SplitDots(c)
           letters == {i \in 2..Len(parts) :
                          Len(parts[i]) = 1 /\ IsLetterAZ(parts[i][1], ignorecase)}
       IN  /\ Len(parts[1]) = 1 /\ parts[1][1] \in Digits15
           /\ Cardinality(letters) <= 1
           /\ \A i \in 2..Len(parts) : i \in letters \/ IsDigitRun(parts[i])

\* Full match of 16(?:\.[0-9]+)+
IsCsrCode(c) ==
    /\ Len(c) >= 2
    /\ LET parts == SplitDots(c)
       IN  /\ parts[1] = <<"1", "6">>
           /\ Len(parts) >= 2
           /\ \A i \in 2..Len(parts) : IsDigitRun(parts[i])

\* Number of consecutive whitespace tokens of s from position i on.
RECURSIVE SpacesFrom(_, _)
SpacesFrom(s, i) ==
    IF i <= Len(s) /\ IsSpace(s[i]) THEN 1 + SpacesFrom(s, i + 1) ELSE 0

\* str.strip()
RECURSIVE Strip(_)
Strip(s) ==
    IF s = <<>> THEN s
    ELSE IF IsSpace(s[1]) THEN Strip(Tail(s))
    ELSE IF IsSpace(s[Len(s)]) THEN Strip(Front(s))
    ELSE s

\* Path(filename).suffix and .stem: the suffix starts at the last dot, unless
\* that dot is the first or the last character of the name.
LastDot(s) ==
    IF \A i \in 1..Len(s) : s[i] # "." THEN 0
    ELSE CHOOSE i \in 1..Len(s) : s[i] = "." /\ \A j \in (i + 1)..Len(s) : s[j] # "."

PathSuffix(s) ==
    LET i == LastDot(s)
    IN  IF 1 < i /\ i < Len(s) THEN SubSeq(s, i, Len(s)) ELSE <<>>

PathStem(s) ==
    LET i == LastDot(s)
    IN  IF 1 < i /\ i < Len(s) THEN SubSeq(s, 1, i - 1) ELSE s

NoMatch == [matched |-> FALSE, code |-> <<>>, title |-> <<>>]
Match(code, title) == [matched |-> TRUE, code |-> code, title |-> title]

\* "code \s+ (.+)$" from position i of s on: the code runs to the first
\* whitespace; \s+ is greedy but leaves the title one character.
CodeThenTitle(s, i, isCode(_)) ==
    LET sp == {j \in i..Len(s) : IsSpace(s[j])}
    IN  IF sp = {} THEN NoMatch
        ELSE LET j == CHOOSE x \in sp : \A y \in sp : x <= y
                 k == SpacesFrom(s, j)
                 code == SubSeq(s, i, j - 1)
             IN  IF ~isCode(code) THEN NoMatch
                 ELSE IF j + k <= Len(s) THEN Match(code, SubSeq(s, j + k, Len(s)))
                 ELSE IF k >= 2 THEN Match(code, <<" ">>)
                 ELSE NoMatch

IsCodeIgnoreCase(c) == IsCtdCode(c, TRUE)
IsCodeExact(c) == IsCtdCode(c, FALSE)

\* Pattern 1: ^Module\s+(code)\s+(.+)$, re.IGNORECASE
MatchModuleFirst(base) ==
    IF Len(base) >= 2 /\ base[1] = "Module" /\ IsSpace(base[2])
    THEN CodeThenTitle(base, 2 + SpacesFrom(base, 2), IsCodeIgnoreCase)
    ELSE NoMatch

\* The rest of pattern 2 after a title1 that ends at position i:
\* \s+Module\s+(code)\s*(.*)$ with a greedy code.
ModuleAfter(s, i) ==
    LET k == SpacesFrom(s, i + 1)
        m == i + 1 + k
    IN  IF k = 0 \/ m > Len(s) \/ s[m] # "Module" THEN NoMatch
        ELSE LET k2 == SpacesFrom(s, m + 1)
                 c0 == m + 1 + k2
                 ends == {e \in c0..Len(s) : IsCtdCode(SubSeq(s, c0, e), TRUE)}
             IN  IF k2 = 0 \/ ends = {} THEN NoMatch
                 ELSE LET e == CHOOSE x \in ends : \A y \in ends : y <= x
                          k3 == SpacesFrom(s, e + 1)
                      IN  Match(SubSeq(s, c0, e), SubSeq(s, e + 1 + k3, Len(s)))

\* Pattern 2: ^(.+?)\s+Module\s+(code)\s*(.*)$, re.IGNORECASE; title1 is the
\* shortest that lets the rest match.  The title is f"{title1} {title2}".strip().
MatchModuleMiddle(base) ==
    LET starts == {i \in 1..Len(base) : ModuleAfter(base, i).matched}
    IN  IF starts = {} THEN NoMatch
        ELSE LET i == CHOOSE x \in starts : \A y \in starts : x <= y
                 m == ModuleAfter(base, i)
             IN  Match(m.code, Strip(SubSeq(base, 1, i) \o <<" ">> \o m.title))

\* Pattern 3: ^(code)\s+(.+)$
MatchCodeTitle(base) == CodeThenTitle(base, 1, IsCodeExact)

\* Pattern 3b: ^(16(?:\.[0-9]+)+)\s+(.+)$
MatchCsrAppendix(base) == CodeThenTitle(base, 1, IsCsrCode)

\* Pattern 4: ^(code)[\.\-](.+)$ on the whole file name, re.IGNORECASE; the
\* code is the longest that a separator and one more character follow.
MatchCodeSeparator(filename) ==
    LET ends == {e \in 1..(Len(filename) - 2) :
                    /\ filename[e + 1] \in {".", "-"}
                    /\ IsCtdCode(SubSeq(filename, 1, e), TRUE)}
    IN  IF ends = {} THEN NoMatch
        ELSE LET e == CHOOSE x \in ends : \A y \in ends : y <= x
             IN  Match(SubSeq(filename, 1, e), SubSeq(filename, e + 2, Len(filename)))

\* build_components: every dot-delimited prefix of the code; a CSR appendix
\* code (16.x) is filed under 5 / 5.3 / 5.3.5.
PrefixChain(code) ==
    LET ends == {e \in 1..Len(code) : e = Len(code) \/ code[e + 1] = "."}
        nth(n) == CHOOSE e \in ends : Cardinality({x \in ends : x < e}) = n - 1
    IN  [n \in 1..Cardinality(ends) |-> SubSeq(code, 1, nth(n))]

CsrPrefix == << <<"5">>, <<"5", ".", "3">>, <<"5", ".", "3", ".", "5">> >>

StartsWith16(c) == Len(c) >= 2 /\ c[1] = "1" /\ c[2] = "6"

\* A build_components that returns the code as one segment.
build_components_flat(ctd_prefix, csr_appendix) == <<ctd_prefix>>

build_components(ctd_prefix, csr_appendix) ==
    LET components == PrefixChain(ctd_prefix)
    IN  IF csr_appendix /\ StartsWith16(components[1])
        THEN CsrPrefix \o components
        ELSE components

\* MANUAL_CTD_MAPPINGS: accession -> ordered (literal prefix, components, name).
\* Every regex of the table is "^literal" (the \d+ and \d* tails of two of
\* them are carried by the next tokens and add nothing to re.match).
Manual(literal, needDigit, components, symlink_name) ==
    [literal |-> literal, needDigit |-> needDigit,
     components |-> components, symlink_name |-> symlink_name]

Tox(n) ==
    << <<"4">>, <<"4", ".", "2">>, <<"4", ".", "2", ".", "3">>,
       <<"4", ".", "2", ".", "3", ".", n>> >>

\* symlink_name None: the caller uses the original file name.
None == <<"None">>

MANUAL_CTD_MAPPINGS ==
    << Manual("__Table Of Contents", FALSE, <<>>, <<"Table Of Contents", ".", "pdf">>),
       Manual("_Form_FDA_1571", FALSE, <<>>, <<"Form FDA 1571", ".", "pdf">>),
       Manual("A-703-", FALSE, Tox("2"), None),
       Manual("XT23", TRUE, Tox("3"), None),
       Manual("5677", FALSE, Tox("3"), None) >>

ManualAccessions == {"RDCP-26-0003"}

ManualMatches(m, filename) ==
    /\ filename # <<>>
    /\ filename[1] = m.literal
    /\ m.needDigit => (Len(filename) >= 2 /\ filename[2] \in Digits09)

Pending == [found |-> FALSE, components |-> <<>>, symlink_name |-> None, family |-> "pending"]
NoCtd == [found |-> FALSE, components |-> <<>>, symlink_name |-> None, family |-> "none"]
Ctd(components, symlink_name, family) ==
    [found |-> TRUE, components |-> components, symlink_name |-> symlink_name,
     family |-> family]

\* f"{ctd_prefix}) {title}{ext}"
SymlinkName(ctd_prefix, title, ext) == ctd_prefix \o <<")", " ">> \o title \o ext

FirstManual(filename) ==
    LET hits == {i \in 1..Len(MANUAL_CTD_MAPPINGS) :
                    ManualMatches(MANUAL_CTD_MAPPINGS[i], filename)}
    IN  IF hits = {} THEN 0 ELSE CHOOSE i \in hits : \A j \in hits : i <= j

\* The return of a pattern that matched: components and symlink_name.
Accepted(match, csr_appendix, ext, family) ==
    Ctd(build_components(match.code, csr_appendix),
        SymlinkName(match.code, match.title, ext), family)

\* The patterns after the manual mappings, in the order of the code.
ParsePatterns(filename) ==
    LET base == PathStem(filename)
        ext == PathSuffix(filename)
        p1 == MatchModuleFirst(base)
        p2 == MatchModuleMiddle(base)
        p3 == MatchCodeTitle(base)
        p3b == MatchCsrAppendix(base)
        p4 == MatchCodeSeparator(filename)
    IN  IF p1.matched THEN Accepted(p1, FALSE, ext, "module-first")
        ELSE IF p2.matched THEN Accepted(p2, FALSE, ext, "module-middle")
        ELSE IF p3.matched THEN Accepted(p3, FALSE, ext, "code-title")
        ELSE IF p3b.matched THEN Accepted(p3b, TRUE, ext, "csr-appendix")
        ELSE IF p4.matched THEN Accepted(p4, FALSE, <<>>, "code-separator")
        ELSE NoCtd

\* A parse_ctd_info that consults the manual mappings after the patterns.
parse_ctd_info_manual_last(filename, accession) ==
    LET m == IF accession \in ManualAccessions THEN FirstManual(filename) ELSE 0
        r == ParsePatterns(filename)
    IN  IF r.found THEN r
        ELSE IF m # 0
        THEN Ctd(MANUAL_CTD_MAPPINGS[m].components, MANUAL_CTD_MAPPINGS[m].symlink_name, "manual")
        ELSE NoCtd

parse_ctd_info(filename, accession) ==
    LET m == IF accession \in ManualAccessions THEN FirstManual(filename) ELSE 0
    IN  IF m # 0
        THEN Ctd(MANUAL_CTD_MAPPINGS[m].components, MANUAL_CTD_MAPPINGS[m].symlink_name, "manual")
        ELSE ParsePatterns(filename)

(***************************************************************************)
(* generate_ctd_view.  A name is a token sequence, a path below the       *)
(* target directory is a sequence of names (<<>> is the target itself).   *)
(***************************************************************************)
\* CTD_NAMES, the entries for the module numbers of the files below.
CTD_NAMES ==
    ( <<"2">> :> "Summaries" @@ <<"2", ".", "5">> :> "Clinical-Overview" @@
      <<"3">> :> "Quality" @@ <<"3", ".", "2">> :> "Body-of-Data" @@
      <<"3", ".", "2", ".", "S">> :> "Drug-Substance" @@
      <<"3", ".", "2", ".", "S", ".", "1">> :> "General-Information" @@
      <<"3", ".", "2", ".", "P">> :> "Drug-Product" @@
      <<"3", ".", "2", ".", "P", ".", "1">> :> "Description-and-Composition" @@
      <<"4">> :> "Nonclinical" @@ <<"4", ".", "2">> :> "Study-Reports" @@
      <<"4", ".", "2", ".", "3">> :> "Toxicology" @@
      <<"4", ".", "2", ".", "3", ".", "2">> :> "Repeat-Dose-Toxicity" @@
      <<"4", ".", "2", ".", "3", ".", "3">> :> "Genotoxicity" @@
      <<"5">> :> "Clinical" @@ <<"5", ".", "3">> :> "Clinical-Study-Reports" @@
      <<"5", ".", "3", ".", "5">> :> "Efficacy-Safety-Studies" )

get_ctd_folder_name(module_num) ==
    IF module_num \in DOMAIN CTD_NAMES
    THEN module_num \o <<")", " ", CTD_NAMES[module_num]>>
    ELSE module_num

\* The printable ASCII characters in code order, for string comparison.
Ascii ==
    << " ", "!", "DQUOTE", "#", "$", "%", "&", "QUOTE", "(", ")", "*", "+", ",", "-", ".", "/",
       "0", "1", "2", "3", "4", "5", "6", "7", "8", "9", ":", ";", "<", "=", ">", "?", "@",
       "A", "B", "C", "D", "E", "F", "G", "H", "I", "J", "K", "L", "M", "N", "O", "P", "Q",
       "R", "S", "T", "U", "V", "W", "X", "Y", "Z", "[", "BSLASH", "]", "^", "_", "BTICK",
       "a", "b", "c", "d", "e", "f", "g", "h", "i", "j", "k", "l", "m", "n", "o", "p", "q",
       "r", "s", "t", "u", "v", "w", "x", "y", "z", "{", "|", "}", "~" >>

CharCode == [c \in {Ascii[i] : i \in 1..Len(Ascii)} |->
                31 + (CHOOSE i \in 1..Len(Ascii) : Ascii[i] = c)]

\* The order of Python strings.
RECURSIVE StrLess(_, _)
StrLess(a, b) ==
    IF b = <<>> THEN FALSE
    ELSE IF a = <<>> THEN TRUE
    ELSE IF a[1] # b[1] THEN CharCode[a[1]] < CharCode[b[1]]
    ELSE StrLess(Tail(a), Tail(b))

\* sorted(set of strings)
RECURSIVE SortedStrs(_)
SortedStrs(S) ==
    IF S = {} THEN <<>>
    ELSE LET m == CHOOSE x \in S : \A y \in S \ {x} : StrLess(x, y)
         IN  <<m>> \o SortedStrs(S \ {m})

\* The source tree: regular files of the source directory and of one
\* subdirectory of it, by name.
SrcFile(dir, name) == [dir |-> dir, name |-> name]

SourcePool ==
    << SrcFile(<<>>, <<"3", ".", "2", ".", "P", ".", "1", " ", "alpha", ".", "pdf">>),
       SrcFile(<<>>, <<"3", ".", "2", ".", "P", ".", "1", " ", "beta", ".", "pdf">>),
       SrcFile(<<>>, <<"3", ".", "2", ".", "S", ".", "1", "-", "gamma", ".", "pdf">>),
       SrcFile(<<>>, <<"3", ".", "2", " ", "delta", ".", "pdf">>),
       SrcFile(<<>>, <<"Module", " ", "2", ".", "5", " ", "overview", ".", "pdf">>),
       SrcFile(<<>>, <<"1", "6", ".", "1", " ", "listing", ".", "pdf">>),
       SrcFile(<<>>, <<"notes", ".", "txt">>),
       SrcFile(<<>>, <<"__Table Of Contents", ".", "pdf">>),
       SrcFile(<<>>, <<"A-703-", "1", ".", "pdf">>),
       SrcFile(<<"sub">>, <<"3", ".", "2", ".", "P", ".", "1", " ", "alpha", ".", "pdf">>),
       SrcFile(<<"sub">>, <<"readme">>) >>

\* The absolute path of a source file (source directories are resolved).
SourcePath(f) == <<"/", "files", "IND-Application">> \o f.dir \o <<f.name>>

EmptyScan == [files_by_path |-> <<>>, root_files |-> <<>>, no_ctd_files |-> <<>>]

AddToKey(fbp, key, item) ==
    IF key \in DOMAIN fbp THEN [fbp EXCEPT ![key] = Append(@, item)]
    ELSE fbp @@ (key :> <<item>>)

\* (symlink_name, full_path), with the original name when symlink_name is None
ScanItem(f, r) ==
    [name |-> IF r.symlink_name = None THEN f.name ELSE r.symlink_name,
     source |-> SourcePath(f)]

\* What scan_directory does with the result r of parse_ctd_info for file f.
Classify(sc, f, r) ==
    IF ~r.found
    THEN [sc EXCEPT !.no_ctd_files = Append(@, f.dir \o <<f.name>>)]
    ELSE IF Len(r.components) = 0
    THEN [sc EXCEPT !.root_files = Append(@, ScanItem(f, r))]
    ELSE [sc EXCEPT !.files_by_path = AddToKey(@, r.components, ScanItem(f, r))]

ClassifyUnmatchedToRoot(sc, f, r) ==
    IF ~r.found \/ Len(r.components) = 0
    THEN [sc EXCEPT !.root_files = Append(@, ScanItem(f, r))]
    ELSE [sc EXCEPT !.files_by_path = AddToKey(@, r.components, ScanItem(f, r))]

ScanFileUnmatchedToRoot(sc, f, accession) ==
    ClassifyUnmatchedToRoot(sc, f, parse_ctd_info(f.name, accession))

\* The body of the loop of scan_directory for one regular file.
ScanFile(sc, f, accession) == Classify(sc, f, parse_ctd_info(f.name, accession))

\* scan_directory over a listing: the files of the directory, then (when
\* recursive) those of its subdirectory.
RECURSIVE ScanFiles(_, _, _)
ScanFiles(sc, listing, accession) ==
    IF listing = <<>> THEN sc
    ELSE ScanFiles(ScanFile(sc, Head(listing), accession), Tail(listing), accession)

RECURSIVE SelectSeq2(_, _)
SelectSeq2(seq, keep) ==
    IF seq = <<>> THEN <<>>
    ELSE (IF Head(seq) \in keep THEN <<Head(seq)>> ELSE <<>>) \o SelectSeq2(Tail(seq), keep)

Listing(chosen, recursive) ==
    LET top == SelectSeq2(SourcePool, {SourcePool[i] : i \in {j \in chosen : SourcePool[j].dir = <<>>}})
        sub == SelectSeq2(SourcePool, {SourcePool[i] : i \in {j \in chosen : SourcePool[j].dir # <<>>}})
    IN  IF recursive THEN top \o sub ELSE top

scan_directory(chosen, recursive, accession) ==
    ScanFiles(EmptyScan, Listing(chosen, recursive), accession)

\* The tree of the second pass: a node is a non-empty prefix of a key.
IsPrefix(a, b) == Len(a) <= Len(b) /\ SubSeq(b, 1, Len(a)) = a

ChildComps(fbp, node) ==
    {k[Len(node) + 1] : k \in {x \in DOMAIN fbp : Len(x) > Len(node) /\ IsPrefix(node, x)}}

FilesAt(fbp, node) == IF node \in DOMAIN fbp THEN fbp[node] ELSE <<>>

\* The target directory tree: directories, symlinks (path -> link text) and
\* the regular files that were there before.
TargetEntryExists(w, path) ==
    path \in w.dirs \/ path \in DOMAIN w.links \/ path \in w.files

Prefixes(base, names) == {base \o SubSeq(names, 1, n) : n \in 1..Len(names)}

\* Path.mkdir(parents=True, exist_ok=True) of base/names[1]/.../names[n]:
\* raises when a component exists and is not a directory.
MkdirAll(w, base, names) ==
    IF \E d \in Prefixes(base, names) : d \in w.files \/ d \in DOMAIN w.links
    THEN [w EXCEPT !.crashed = TRUE]
    ELSE [w EXCEPT !.dirs = @ \cup Prefixes(base, names)]

LinkAlways(w, dir, item) ==
    [w EXCEPT !.links = [p \in DOMAIN @ \cup {Append(dir, item.name)} |->
                            IF p = Append(dir, item.name) THEN item.source ELSE @[p]],
              !.linked = @ + 1]

\* if link_path.exists() or link_path.is_symlink(): skip, else symlink_to
LinkOrSkip(w, dir, item) ==
    LET link_path == Append(dir, item.name)
    IN  IF TargetEntryExists(w, link_path)
        THEN [w EXCEPT !.skipped = @ + 1]
        ELSE [w EXCEPT !.links = @ @@ (link_path :> item.source), !.linked = @ + 1]

RECURSIVE LinkAll(_, _, _)
LinkAll(w, dir, items) ==
    IF items = <<>> THEN w
    ELSE LinkAll(LinkOrSkip(w, dir, Head(items)), dir, Tail(items))

IsSingleFileNever(total_items, num_files) == FALSE

\* elif total_items == 1 and num_files == 1: the file goes into parent_path
IsSingleFile(total_items, num_files) == total_items = 1 /\ num_files = 1

IsSingleChildIgnoringFiles(total_items, num_children) == num_children = 1

\* elif total_items == 1 and num_children == 1: accumulate the name and recurse
IsSingleChild(total_items, num_children) == total_items = 1 /\ num_children = 1

\* create_links(node, parent_path, accumulated_names): `comps` are the keys of
\* `node` still to be visited, in sorted order; `at` is the path of `node`.
RECURSIVE create_links(_, _, _, _, _, _)
create_links(w, fbp, at, comps, parent_path, accumulated_names) ==
    IF comps = <<>> \/ w.crashed THEN w
    ELSE
      LET comp == Head(comps)
          here == Append(at, comp)
          folder_name == get_ctd_folder_name(comp)
          children == ChildComps(fbp, here)
          files == FilesAt(fbp, here)
          total_items == Cardinality(children) + Len(files)
          all_names == Append(accumulated_names, folder_name)
          folder_path == parent_path \o all_names
          made == MkdirAll(w, parent_path, all_names)
          w2 ==
            IF total_items = 0 THEN w
            ELSE IF IsSingleFile(total_items, Len(files))
            THEN LinkOrSkip(w, parent_path, files[1])
            ELSE IF IsSingleChild(total_items, Cardinality(children))
            THEN create_links(w, fbp, here, SortedStrs(children), parent_path, all_names)
            ELSE IF made.crashed THEN made
            ELSE create_links(LinkAll(made, folder_path, files), fbp, here,
                              SortedStrs(children), folder_path, <<>>)
      IN  create_links(w2, fbp, at, Tail(comps), parent_path, accumulated_names)

TopComps(fbp) == {k[1] : k \in DOMAIN fbp}

\* generate_ctd_view after the scan: the third pass and the root-level links.
MaterializeCtd(w, sc) ==
    LET w0 == [w EXCEPT !.linked = 0, !.skipped = 0, !.crashed = FALSE]
        w1 == create_links(w0, sc.files_by_path, <<>>, SortedStrs(TopComps(sc.files_by_path)),
                           <<>>, <<>>)
    IN  IF w1.crashed THEN w1 ELSE LinkAll(w1, <<>>, sc.root_files)

(***************************************************************************)
(* generate_date_view.  Names are token sequences: one token per          *)
(* character, except the words spelled out in Words.                      *)
(***************************************************************************)
Words ==
    ( "Dec" :> <<"D", "e", "c">> @@ "Jan" :> <<"J", "a", "n">> @@ "jan" :> <<"j", "a", "n">> @@
      "SN" :> <<"S", "N">> @@ "submitted" :> <<"s", "u", "b", "m", "i", "t", "t", "e", "d">> @@
      "alpha" :> <<"a", "l", "p", "h", "a">> @@ "beta" :> <<"b", "e", "t", "a">> @@
      "gamma" :> <<"g", "a", "m", "m", "a">> @@ "notes" :> <<"n", "o", "t", "e", "s">> @@
      "pdf" :> <<"p", "d", "f">> @@ "txt" :> <<"t", "x", "t">> @@
      "Clinical" :> <<"C", "l", "i", "n", "i", "c", "a", "l">> @@
      "Regulatory" :> <<"R", "e", "g", "u", "l", "a", "t", "o", "r", "y">> @@
      "IND" :> <<"I", "N", "D">> )

\* The characters of a token sequence.
RECURSIVE Spell(_)
Spell(s) ==
    IF s = <<>> THEN <<>>
    ELSE (IF Head(s) \in DOMAIN Words THEN Words[Head(s)] ELSE <<Head(s)>>) \o Spell(Tail(s))

\* MONTHS, looked up with the lower-cased match
MONTHS == ( "Jan" :> <<"0", "1">> @@ "jan" :> <<"0", "1">> @@ "Dec" :> <<"1", "2">> )

IsDigit(t) == t \in Digits09
IsMonth(t) == t \in DOMAIN MONTHS
DigitsAt(s, i, n) == i >= 1 /\ i + n - 1 <= Len(s) /\ \A j \in i..(i + n - 1) : IsDigit(s[j])
MonthAt(s, i) == i >= 1 /\ i <= Len(s) /\ IsMonth(s[i])
TokenAt(s, i, t) == i >= 1 /\ i <= Len(s) /\ s[i] = t

\* A zfill that pads nothing.
zfill2_unpadded(d) == d

zfill2(d) == IF Len(d) < 2 THEN <<"0">> \o d ELSE d

NoDate == [found |-> FALSE, date_str |-> <<>>, start |-> 0, end |-> 0]
DateAt(date_str, start, end) ==
    [found |-> TRUE, date_str |-> date_str, start |-> start, end |-> end]

Leftmost(S) == CHOOSE i \in S : \A j \in S : i <= j

\* re.search of (\d{4})(Jan|...|Dec)(\d{1,2}), re.IGNORECASE
SearchYearMonthDay(s) ==
    LET starts == {i \in 1..Len(s) : DigitsAt(s, i, 4) /\ MonthAt(s, i + 4) /\ DigitsAt(s, i + 5, 1)}
    IN  IF starts = {} THEN NoDate
        ELSE LET i == Leftmost(starts)
                 n == IF DigitsAt(s, i + 5, 2) THEN 2 ELSE 1
             IN  DateAt(SubSeq(s, i, i + 3) \o <<"-">> \o MONTHS[s[i + 4]] \o <<"-">>
                           \o zfill2(SubSeq(s, i + 5, i + 4 + n)),
                        i, i + 4 + n)

\* re.search of (\d{1,2})(Jan|...|Dec)(\d{4}), re.IGNORECASE
SearchDayMonthYear(s) ==
    LET two == {i \in 1..Len(s) : DigitsAt(s, i, 2) /\ MonthAt(s, i + 2) /\ DigitsAt(s, i + 3, 4)}
        one == {i \in 1..Len(s) : DigitsAt(s, i, 1) /\ MonthAt(s, i + 1) /\ DigitsAt(s, i + 2, 4)}
    IN  IF two \cup one = {} THEN NoDate
        ELSE LET i == Leftmost(two \cup one)
                 n == IF i \in two THEN 2 ELSE 1
             IN  DateAt(SubSeq(s, i + n + 1, i + n + 4) \o <<"-">> \o MONTHS[s[i + n]] \o <<"-">>
                           \o zfill2(SubSeq(s, i, i + n - 1)),
                        i, i + n + 4)

\* re.search of (\d{4})-(\d{2})-(\d{2})
SearchIsoDate(s) ==
    LET starts == {i \in 1..Len(s) :
                      /\ DigitsAt(s, i, 4) /\ TokenAt(s, i + 4, "-") /\ DigitsAt(s, i + 5, 2)
                      /\ TokenAt(s, i + 7, "-") /\ DigitsAt(s, i + 8, 2)}
    IN  IF starts = {} THEN NoDate
        ELSE LET i == Leftmost(starts) IN DateAt(SubSeq(s, i, i + 9), i, i + 9)

\* parse_date: (date_str, remaining), or found = FALSE and the text itself
parse_date(text) ==
    LET m1 == SearchYearMonthDay(text)
        m2 == SearchDayMonthYear(text)
        m3 == SearchIsoDate(text)
        m == IF m1.found THEN m1 ELSE IF m2.found THEN m2 ELSE m3
    IN  IF m.found
        THEN [found |-> TRUE, date_str |-> m.date_str,
              remaining |-> Strip(SubSeq(text, 1, m.start - 1) \o SubSeq(text, m.end + 1, Len(text)))]
        ELSE [found |-> FALSE, date_str |-> None, remaining |-> text]

\* \w: letters, digits and the underscore
IsWordToken(t) == t \in DOMAIN Words \/ IsDigit(t) \/ t = "_" \/ t \in UpperLetters \/ t \in LowerLetters
BoundaryBefore(s, i) == i = 1 \/ ~IsWordToken(s[i - 1])
BoundaryAfter(s, i) == i = Len(s) \/ ~IsWordToken(s[i + 1])

RECURSIVE DigitsFrom(_, _)
DigitsFrom(s, i) == IF i <= Len(s) /\ IsDigit(s[i]) THEN 1 + DigitsFrom(s, i + 1) ELSE 0

\* re.sub(r'\bSN\s*(\d+)\b', r'SN-\1', title, flags=re.IGNORECASE), from position i on
RECURSIVE NormalizeSN(_, _)
NormalizeSN(s, i) ==
    IF i > Len(s) THEN s
    ELSE LET sp == SpacesFrom(s, i + 1)
             nd == DigitsFrom(s, i + 1 + sp)
             e == i + sp + nd
         IN  IF s[i] = "SN" /\ BoundaryBefore(s, i) /\ nd >= 1 /\ BoundaryAfter(s, e)
             THEN LET r == SubSeq(s, 1, i) \o <<"-">> \o SubSeq(s, i + 1 + sp, Len(s))
                  IN  NormalizeSN(r, i + 2 + nd)
             ELSE NormalizeSN(s, i + 1)

\* re.sub(r'\bsubmitted\b', '', title, flags=re.IGNORECASE)
RECURSIVE RemoveSubmitted(_, _)
RemoveSubmitted(s, i) ==
    IF i > Len(s) THEN s
    ELSE IF s[i] = "submitted" /\ BoundaryBefore(s, i) /\ BoundaryAfter(s, i)
    THEN RemoveSubmitted(SubSeq(s, 1, i - 1) \o SubSeq(s, i + 1, Len(s)), i)
    ELSE RemoveSubmitted(s, i + 1)

\* str.replace(pattern, '')
RECURSIVE RemoveAll(_, _)
RemoveAll(s, pattern) ==
    IF pattern = <<>> \/ Len(s) < Len(pattern) THEN s
    ELSE IF SubSeq(s, 1, Len(pattern)) = pattern
    THEN RemoveAll(SubSeq(s, Len(pattern) + 1, Len(s)), pattern)
    ELSE <<Head(s)>> \o RemoveAll(Tail(s), pattern)

RECURSIVE RemovePatterns(_, _)
RemovePatterns(s, patterns) ==
    IF patterns = <<>> THEN s
    ELSE RemovePatterns(RemoveAll(s, Head(patterns)), Tail(patterns))

IsBlank(t) == t = "_" \/ IsSpace(t)

\* re.sub(r'[_\s]+', ' ', title)
RECURSIVE CollapseBlanks(_)
CollapseBlanks(s) ==
    IF s = <<>> THEN s
    ELSE IF IsBlank(Head(s))
    THEN IF Len(s) >= 2 /\ IsBlank(s[2]) THEN CollapseBlanks(Tail(s))
         ELSE <<" ">> \o CollapseBlanks(Tail(s))
    ELSE <<Head(s)>> \o CollapseBlanks(Tail(s))

\* re.sub(r'^[\s_\-]+|[\s_\-]+$', '', title)
RECURSIVE TrimSeparators(_)
TrimSeparators(s) ==
    IF s = <<>> THEN s
    ELSE IF IsBlank(s[1]) \/ s[1] = "-" THEN TrimSeparators(Tail(s))
    ELSE IF IsBlank(s[Len(s)]) \/ s[Len(s)] = "-" THEN TrimSeparators(Front(s))
    ELSE s

clean_title(title, strip_patterns) ==
    TrimSeparators(CollapseBlanks(RemovePatterns(RemoveSubmitted(NormalizeSN(title, 1), 1),
                                                 strip_patterns)))

\* The source directories of the date view and their entries (files and
\* folders), in listing order.
SourceDirs == << <<"Clinical", " Submissions">>, <<"Regulatory", " Correspondence">> >>

DateEntry(dir, name, is_dir) == [dir |-> dir, name |-> name, is_dir |-> is_dir]

DatePool ==
    << DateEntry(1, <<"2", "0", "1", "9", "Dec", "3", "1", " ", "alpha", ".", "pdf">>, FALSE),
       DateEntry(1, <<"2", "0", "1", "9", "Dec", "3", "1", " ", "beta">>, TRUE),
       DateEntry(1, <<"2", "0", "1", "9", "Dec", "3", "1", "_", "alpha", ".", "pdf">>, FALSE),
       DateEntry(1, <<"2", "0", "1", "9", "-", "1", "1", "-", "0", "5", " ", "SN", " ",
                      "0", "0", "0", "1", " ", "submitted", ".", "pdf">>, FALSE),
       DateEntry(1, <<"2", "8", "Jan", "2", "0", "2", "2", ".", "pdf">>, FALSE),
       DateEntry(2, <<"3", "1", "Dec", "2", "0", "1", "9", " ", "alpha", ".", "pdf">>, FALSE),
       DateEntry(2, <<"notes", ".", "txt">>, FALSE),
       DateEntry(2, <<"2", "0", "2", "2", "jan", "5", " ", "IND", " ", "gamma", ".", "pdf">>, FALSE) >>

\* source_dir.name.replace(" Submissions", "").replace(" Correspondence", "")
Category(dir_name) == RemoveAll(RemoveAll(dir_name, <<" Submissions">>), <<" Correspondence">>)

DateSourcePath(e) == <<"/", "files", SourceDirs[e.dir], e.name>>

\* The body of the scan loop of generate_date_view for one entry.
ScanEntry(sc, e, strip_patterns) ==
    LET d == parse_date(e.name)
        name_without_ext == IF e.is_dir THEN e.name ELSE PathStem(e.name)
        ext == IF e.is_dir THEN <<>> ELSE PathSuffix(e.name)
        cleaned == clean_title(parse_date(name_without_ext).remaining, strip_patterns)
        category == Category(SourceDirs[e.dir])
        title == IF cleaned = <<>> THEN category ELSE cleaned
    IN  IF ~d.found
        THEN [sc EXCEPT !.no_date = Append(@, <<SourceDirs[e.dir], e.name>>)]
        ELSE [sc EXCEPT !.items = Append(@, [date_str |-> d.date_str, title |-> title,
                                             source |-> DateSourcePath(e), is_dir |-> e.is_dir,
                                             ext |-> ext, category |-> category])]

RECURSIVE ScanEntries(_, _, _)
ScanEntries(sc, listing, strip_patterns) ==
    IF listing = <<>> THEN sc
    ELSE ScanEntries(ScanEntry(sc, Head(listing), strip_patterns), Tail(listing), strip_patterns)

\* The sort key (date, category, title) of items.sort
KeyLess(a, b) ==
    \/ StrLess(a.date_str, b.date_str)
    \/ /\ a.date_str = b.date_str
       /\ \/ StrLess(Spell(a.category), Spell(b.category))
          \/ /\ Spell(a.category) = Spell(b.category)
             /\ StrLess(Spell(a.title), Spell(b.title))

\* list.sort is stable: an item goes behind the items that are not greater.
RECURSIVE InsertSorted(_, _)
InsertSorted(sorted, item) ==
    IF sorted = <<>> THEN <<item>>
    ELSE IF KeyLess(item, Head(sorted)) THEN <<item>> \o sorted
    ELSE <<Head(sorted)>> \o InsertSorted(Tail(sorted), item)

RECURSIVE SortItems(_, _)
SortItems(done, rest) ==
    IF rest = <<>> THEN done ELSE SortItems(InsertSorted(done, Head(rest)), Tail(rest))

EmptyDateScan == [items |-> <<>>, no_date |-> <<>>]

ScanDateSources(chosen, strip_patterns) ==
    LET listing == SelectSeq2(DatePool, {DatePool[i] : i \in chosen})
        sc == ScanEntries(EmptyDateScan, listing, strip_patterns)
    IN  [sc EXCEPT !.items = SortItems(<<>>, @)]

RECURSIVE ItemsWhere(_, _, _)
ItemsWhere(items, n, prefix) ==
    IF items = <<>> THEN <<>>
    ELSE (IF SubSeq(Head(items).date_str, 1, n) = prefix THEN <<Head(items)>> ELSE <<>>)
            \o ItemsWhere(Tail(items), n, prefix)

\* The names of the links of a date that has several items: the category is
\* added to a title that occurs more than once.
LinkNameInDate(date_items, it) ==
    LET same == {i \in 1..Len(date_items) :
                    date_items[i].title \o date_items[i].ext = it.title \o it.ext}
    IN  (IF Cardinality(same) > 1
         THEN it.title \o <<" ", "(">> \o it.category \o <<")">>
         ELSE it.title) \o it.ext

RECURSIVE NamedItems(_, _)
NamedItems(date_items, rest) ==
    IF rest = <<>> THEN <<>>
    ELSE <<[name |-> LinkNameInDate(date_items, Head(rest)), source |-> Head(rest).source]>>
            \o NamedItems(date_items, Tail(rest))

\* A date directory for every date, whatever its number of items.
create_date_links_always_dir(w, date_str, date_items, parent_dir) ==
    LET made == MkdirAll(w, parent_dir, <<date_str>>)
    IN  IF made.crashed THEN made
        ELSE LinkAll(made, Append(parent_dir, date_str), NamedItems(date_items, date_items))

create_date_links(w, date_str, date_items, parent_dir) ==
    IF Len(date_items) = 1
    THEN LinkOrSkip(w, parent_dir,
                    [name |-> date_str \o <<" ">> \o date_items[1].title \o date_items[1].ext,
                     source |-> date_items[1].source])
    ELSE LET made == MkdirAll(w, parent_dir, <<date_str>>)
         IN  IF made.crashed THEN made
             ELSE LinkAll(made, Append(parent_dir, date_str), NamedItems(date_items, date_items))

RECURSIVE DatesLoop(_, _, _, _)
DatesLoop(w, dates, items, parent_dir) ==
    IF dates = <<>> \/ w.crashed THEN w
    ELSE DatesLoop(create_date_links(w, Head(dates), ItemsWhere(items, 10, Head(dates)), parent_dir),
                   Tail(dates), items, parent_dir)

DatesOf(items) == {items[i].date_str : i \in 1..Len(items)}

\* The loop over sorted(items_by_year.keys())
RECURSIVE YearsLoop(_, _, _)
YearsLoop(w, years, items) ==
    IF years = <<>> \/ w.crashed THEN w
    ELSE LET year == Head(years)
             in_year == ItemsWhere(items, 4, year)
             made == MkdirAll(w, <<>>, <<year>>)
             w2 == IF Len(in_year) = 1
                   THEN create_date_links(w, in_year[1].date_str, in_year, <<>>)
                   ELSE IF made.crashed THEN made
                   ELSE DatesLoop(made, SortedStrs(DatesOf(in_year)), in_year, <<year>>)
         IN  YearsLoop(w2, Tail(years), items)

MaterializeDate(w, sc) ==
    LET w0 == [w EXCEPT !.linked = 0, !.skipped = 0, !.crashed = FALSE]
        years == {SubSeq(d, 1, 4) : d \in DatesOf(sc.items)}
    IN  YearsLoop(w0, SortedStrs(years), sc.items)

(***************************************************************************)
(* build_atc_trie.  An ATC code is a sequence of characters; names are    *)
(* token sequences (words, blanks and punctuation).                       *)
(***************************************************************************)
AtcLength == 7
NoFurtherLevel == 999
\* Levels at every length of a code.
AtcLevels_every_length == <<1, 2, 3, 4, 5, 6, 7>>

AtcLevels == <<1, 3, 4, 5, 7>>

\* ATC_LEVEL1, ATC_LEVEL2, ATC_LEVEL3: the entries under the codes of AtcCodes
ATC_LEVEL1 ==
    ( <<"L">> :> "Antineoplastic-Immunomod" @@ <<"N">> :> "Nervous-system" @@ <<"Z">> :> "Unknown" )

ATC_LEVEL2 ==
    ( <<"L", "0", "1">> :> "Antineoplastics" @@ <<"N", "0", "2">> :> "Analgesics" @@
      <<"Z", "0", "0">> :> "Unknown" )

ATC_LEVEL3 ==
    ( <<"L", "0", "1", "F">> :> "Monoclonal-antibodies" @@
      <<"L", "0", "1", "F", "F">> :> "PD-1-PD-L1-inhibitors" @@
      <<"L", "0", "1", "F", "X">> :> "Other-mAbs" @@
      <<"L", "0", "1", "X">> :> "Other-antineoplastics" @@
      <<"L", "0", "1", "X", "G">> :> "Proteasome-inhibitors" @@
      <<"L", "0", "1", "X", "X">> :> "Other-antineoplastics" @@
      <<"N", "0", "2", "B">> :> "Other-analgesics" @@
      <<"N", "0", "2", "B", "E">> :> "Anilides" @@
      <<"Z", "0", "0">> :> "Unknown" )

\* code[:length]
Take(code, length) == SubSeq(code, 1, IF length < Len(code) THEN length ELSE Len(code))

\* "X" * n
RECURSIVE Xs(_)
Xs(n) == IF n <= 0 THEN <<>> ELSE <<"X">> \o Xs(n - 1)

\* code.rstrip('X')
RECURSIVE RStripX(_)
RStripX(code) ==
    IF code # <<>> /\ code[Len(code)] = "X" THEN RStripX(Front(code)) ELSE code

normalize_atc(code) ==
    IF code = <<>> THEN <<"Z", "0", "0", "X", "X", "X", "X">>
    ELSE IF Len(code) < AtcLength THEN code \o Xs(AtcLength - Len(code))
    ELSE code

\* The first of the tried prefixes that ATC_LEVEL3 has, or <<>>
Level3Hit(code) ==
    LET tried == <<Take(code, Len(code)), Take(code, 5), Take(code, 4)>>
        hits == {i \in 1..3 : tried[i] \in DOMAIN ATC_LEVEL3}
    IN  IF hits = {} THEN <<>> ELSE tried[Leftmost(hits)]

get_atc_name(code) ==
    LET base_code == RStripX(code)
    IN  IF Level3Hit(code) # <<>> THEN ATC_LEVEL3[Level3Hit(code)]
        ELSE IF Level3Hit(base_code) # <<>> THEN ATC_LEVEL3[Level3Hit(base_code)]
        ELSE IF Len(base_code) >= 3 /\ Take(base_code, 3) \in DOMAIN ATC_LEVEL2
        THEN ATC_LEVEL2[Take(base_code, 3)]
        ELSE IF Len(base_code) >= 1 /\ Take(base_code, 1) \in DOMAIN ATC_LEVEL1
        THEN ATC_LEVEL1[Take(base_code, 1)]
        ELSE "Unknown"

get_collapsed_prefix(code, length) ==
    IF length = 0 THEN <<>>
    ELSE LET prefix == Take(code, length)
             base == RStripX(prefix)
         IN  IF Len(base) < Len(prefix) THEN Append(base, "X") ELSE prefix

\* A get_next_meaningful_level that takes the next boundary as it comes.
get_next_meaningful_level_unskipped(code, current_len) ==
    LET next == {i \in 1..Len(AtcLevels) : AtcLevels[i] > current_len}
    IN  IF next = {} THEN NoFurtherLevel ELSE AtcLevels[Leftmost(next)]

get_next_meaningful_level(code, current_len) ==
    LET current_collapsed == get_collapsed_prefix(code, current_len)
        next == {i \in 1..Len(AtcLevels) :
                    /\ AtcLevels[i] > current_len
                    /\ get_collapsed_prefix(code, AtcLevels[i]) # current_collapsed}
    IN  IF next = {} THEN NoFurtherLevel ELSE AtcLevels[Leftmost(next)]

\* The characters escape_for_path replaces by a dash
PathUnsafe == {"/", "BSLASH", ":", "<", ">", "DQUOTE", "|", "?", "*"}

RECURSIVE CollapseDashes(_)
CollapseDashes(s) ==
    IF Len(s) < 2 THEN s
    ELSE IF s[1] = "-" /\ s[2] = "-" THEN CollapseDashes(Tail(s))
    ELSE <<Head(s)>> \o CollapseDashes(Tail(s))

RECURSIVE StripDashes(_)
StripDashes(s) ==
    IF s = <<>> THEN s
    ELSE IF s[1] = "-" THEN StripDashes(Tail(s))
    ELSE IF s[Len(s)] = "-" THEN StripDashes(Front(s))
    ELSE s

\* An escape_for_path without the loop that collapses dashes.
escape_for_path_uncollapsed(s) ==
    StripDashes([i \in 1..Len(s) |-> IF s[i] \in PathUnsafe THEN "-" ELSE s[i]])

escape_for_path(s) ==
    StripDashes(CollapseDashes([i \in 1..Len(s) |-> IF s[i] \in PathUnsafe THEN "-" ELSE s[i]]))

escape_product_number(product_num) == escape_for_path(product_num)

\* str.split(): the words between runs of blanks
RECURSIVE SplitWords(_)
SplitWords(s) ==
    IF s = <<>> THEN <<>>
    ELSE IF IsSpace(Head(s)) THEN SplitWords(Tail(s))
    ELSE LET stops == {i \in 1..Len(s) : IsSpace(s[i])}
             n == IF stops = {} THEN Len(s) ELSE Leftmost(stops) - 1
         IN  <<SubSeq(s, 1, n)>> \o SplitWords(SubSeq(s, n + 1, Len(s)))

\* str.lower() of a word, token by token
LowerCase == ( "Alpha" :> "alpha" @@ "One" :> "one" @@ "Two" :> "two" @@ "Three" :> "three" @@
               "Para" :> "para" @@ "Gefi" :> "gefi" )
Lower(word) == [i \in 1..Len(word) |->
                   IF word[i] \in DOMAIN LowerCase THEN LowerCase[word[i]] ELSE word[i]]

\* " ".join(words)
RECURSIVE JoinWords(_)
JoinWords(words) ==
    IF words = <<>> THEN <<>>
    ELSE IF Len(words) = 1 THEN words[1]
    ELSE words[1] \o <<" ">> \o JoinWords(Tail(words))

\* An extract_common_name that compares the words as they are spelled.
extract_common_name_exact(names) ==
    IF names = <<>> THEN None
    ELSE LET words_list == [i \in 1..Len(names) |-> SplitWords(names[i])]
             min_len == CHOOSE n \in {Len(words_list[i]) : i \in 1..Len(names)} :
                            \A i \in 1..Len(names) : n <= Len(words_list[i])
             agree == {k \in 1..min_len :
                          \A i \in 1..Len(names) : words_list[i][k] = words_list[1][k]}
             n == IF \E k \in 1..min_len : k \notin agree
                  THEN Leftmost((1..min_len) \ agree) - 1 ELSE min_len
         IN  IF n = 0 THEN None ELSE JoinWords(SubSeq(words_list[1], 1, n))

extract_common_name(names) ==
    IF names = <<>> THEN None
    ELSE LET words_list == [i \in 1..Len(names) |-> SplitWords(names[i])]
             min_len == CHOOSE n \in {Len(words_list[i]) : i \in 1..Len(names)} :
                            \A i \in 1..Len(names) : n <= Len(words_list[i])
             agree == {k \in 1..min_len :
                          \A i \in 1..Len(names) : Lower(words_list[i][k]) = Lower(words_list[1][k])}
             n == IF \E k \in 1..min_len : k \notin agree
                  THEN Leftmost((1..min_len) \ agree) - 1 ELSE min_len
         IN  IF n = 0 THEN None ELSE JoinWords(SubSeq(words_list[1], 1, n))

\* A Medicine (the fields the trie reads)
Medicine(product_number, name, atc_code) ==
    [product_number |-> product_number, name |-> name, atc_code |-> atc_code]

\* A (med, docs) pair of products.items()
Qualifying(med, docs) ==
    [product_number |-> med.product_number, name |-> med.name, atc_code |-> med.atc_code,
     docs |-> docs]

\* A dict.update that keeps nothing of what the dict had.
Update_replaced(result, other) == other

\* dict[key] = value and dict.update(other)
Put(result, key, value) ==
    [k \in DOMAIN result \cup {key} |-> IF k = key THEN value ELSE result[k]]

Update(result, other) ==
    [k \in DOMAIN result \cup DOMAIN other |-> IF k \in DOMAIN other THEN other[k] ELSE result[k]]

\* by_atc: the products grouped by normalized code, codes in order of first
\* appearance.
RECURSIVE GroupByAtc(_, _)
GroupByAtc(by_atc, products) ==
    IF products = <<>> THEN by_atc
    ELSE LET med == Head(products)
             atc == normalize_atc(med.atc_code)
             at == {i \in 1..Len(by_atc) : by_atc[i].code = atc}
             added == IF at = {}
                      THEN Append(by_atc, [code |-> atc, prods |-> <<med>>])
                      ELSE [by_atc EXCEPT ![Leftmost(at)].prods = Append(@, med)]
         IN  GroupByAtc(added, Tail(products))

\* groups: the codes of codes_products by collapsed prefix, prefixes in order
\* of first appearance.
RECURSIVE GroupByPrefix(_, _, _)
GroupByPrefix(groups, codes_products, prefix_len) ==
    IF codes_products = <<>> THEN groups
    ELSE LET cp == Head(codes_products)
             prefix == get_collapsed_prefix(cp.code, prefix_len)
             at == {i \in 1..Len(groups) : groups[i].prefix = prefix}
             added == IF at = {}
                      THEN Append(groups, [prefix |-> prefix, sub_codes |-> <<cp>>])
                      ELSE [groups EXCEPT ![Leftmost(at)].sub_codes = Append(@, cp)]
         IN  GroupByPrefix(added, Tail(codes_products), prefix_len)

LeafNode(med, display_name) ==
    [kind |-> "leaf", med |-> med.product_number, docs |-> med.docs, display_name |-> display_name]
DirNode(children, display_name) == [kind |-> "dir", children |-> children, display_name |-> display_name]

\* result[fs_name] = ("leaf", med, docs, display_name), the name led by the code
PutCodeLeaf(result, med) ==
    LET escaped == escape_product_number(med.product_number)
        atc == normalize_atc(med.atc_code)
    IN  Put(result,
            atc \o <<")", " ">> \o escape_for_path(med.name) \o <<" ", "-", " ">> \o escaped,
            LeafNode(med, atc \o <<")", " ">> \o med.name \o <<" ", "-", " ">> \o escaped))

RECURSIVE PutCodeLeaves(_, _)
PutCodeLeaves(result, prods) ==
    IF prods = <<>> THEN result
    ELSE PutCodeLeaves(PutCodeLeaf(result, Head(prods)), Tail(prods))

\* for code, prods in sub_codes.items(): for med, docs in prods: a leaf
RECURSIVE PutAllLeaves(_, _)
PutAllLeaves(result, sub_codes) ==
    IF sub_codes = <<>> THEN result
    ELSE PutAllLeaves(PutCodeLeaves(result, Head(sub_codes).prods), Tail(sub_codes))

\* children[fs_leaf] = ("leaf", med, docs, display_leaf), the code left out
RECURSIVE PutPlainLeaves(_, _)
PutPlainLeaves(children, prods) ==
    IF prods = <<>> THEN children
    ELSE LET med == Head(prods)
             escaped == escape_product_number(med.product_number)
         IN  PutPlainLeaves(
                 Put(children, escape_for_path(med.name) \o <<" ", "-", " ">> \o escaped,
                     LeafNode(med, med.name \o <<" ", "-", " ">> \o escaped)),
                 Tail(prods))

\* The folder of the products of one full code
PutSubstanceDir(result, code, prods) ==
    LET atc == normalize_atc(code)
        dict_name == <<get_atc_name(atc)>>
        parent_name == IF Len(atc) >= 5 THEN <<get_atc_name(Take(atc, 5))>> ELSE <<>>
        common == extract_common_name([i \in 1..Len(prods) |-> prods[i].name])
        substance_name == IF dict_name = parent_name /\ common # None /\ common # <<>>
                          THEN common ELSE dict_name
    IN  Put(result, atc \o <<")", " ">> \o escape_for_path(substance_name),
            DirNode(PutPlainLeaves(<<>>, prods), atc \o <<")", " ">> \o substance_name))

\* The folder of a prefix that has several children
PutPrefixDir(result, prefix, children) ==
    LET name == <<get_atc_name(prefix)>>
    IN  Put(result, prefix \o <<")", " ">> \o escape_for_path(name),
            DirNode(children, prefix \o <<")", " ">> \o name))

\* A substance folder for a code with several products, a leaf for one
RECURSIVE PutDirsOrLeaves(_, _)
PutDirsOrLeaves(result, sub_codes) ==
    IF sub_codes = <<>> THEN result
    ELSE LET cp == Head(sub_codes)
             r == IF Len(cp.prods) > 1 THEN PutSubstanceDir(result, cp.code, cp.prods)
                  ELSE PutCodeLeaves(result, cp.prods)
         IN  PutDirsOrLeaves(r, Tail(sub_codes))

RECURSIVE CountProducts(_)
CountProducts(sub_codes) ==
    IF sub_codes = <<>> THEN 0
    ELSE Len(Head(sub_codes).prods) + CountProducts(Tail(sub_codes))

\* if prefix and prefix == parent_prefix
IsDuplicatePrefix(prefix, parent_prefix) == prefix # <<>> /\ prefix = parent_prefix

\* A multi-code group that merges its children only when there is one child.
MergesIntoParent_single_child(prefix_len, children) == Cardinality(DOMAIN children) = 1

\* A multi-code group that merges its children at the top level only.
MergesIntoParent_top_only(prefix_len, children) == prefix_len = 0

\* if prefix_len == 0 ... elif len(children) == 1: result.update(children)
MergesIntoParent(prefix_len, children) ==
    prefix_len = 0 \/ Cardinality(DOMAIN children) = 1

RECURSIVE build_level(_, _, _)
RECURSIVE BuildGroups(_, _, _, _)

\* The loop of build_level over groups.items()
BuildGroups(result, groups, prefix_len, parent_prefix) ==
    IF groups = <<>> THEN result
    ELSE
      LET prefix == Head(groups).prefix
          sub_codes == Head(groups).sub_codes
          first_code == sub_codes[1].code
          next_level == get_next_meaningful_level(first_code, prefix_len)
          total_products == CountProducts(sub_codes)
          same_parent == build_level(sub_codes, next_level, parent_prefix)
          children == build_level(sub_codes, next_level, prefix)
          r ==
            IF IsDuplicatePrefix(prefix, parent_prefix)
            THEN IF next_level >= NoFurtherLevel THEN PutAllLeaves(result, sub_codes)
                 ELSE Update(result, same_parent)
            ELSE IF total_products = 1 THEN PutAllLeaves(result, sub_codes)
            ELSE IF Len(sub_codes) = 1
            THEN IF next_level >= NoFurtherLevel \/ Len(first_code) <= prefix_len
                 THEN IF Len(sub_codes[1].prods) > 1
                      THEN PutSubstanceDir(result, first_code, sub_codes[1].prods)
                      ELSE PutCodeLeaves(result, sub_codes[1].prods)
                 ELSE IF Cardinality(DOMAIN children) = 1 THEN Update(result, children)
                 ELSE PutPrefixDir(result, prefix, children)
            ELSE IF next_level >= NoFurtherLevel THEN PutDirsOrLeaves(result, sub_codes)
            ELSE IF MergesIntoParent(prefix_len, children)
            THEN Update(result, children)
            ELSE PutPrefixDir(result, prefix, children)
      IN  BuildGroups(r, Tail(groups), prefix_len, parent_prefix)

build_level(codes_products, prefix_len, parent_prefix) ==
    IF codes_products = <<>> THEN <<>>
    ELSE BuildGroups(<<>>, GroupByPrefix(<<>>, codes_products, prefix_len), prefix_len,
                     parent_prefix)

build_atc_trie(products) == build_level(GroupByAtc(<<>>, products), 0, <<>>)

(***************************************************************************)
(* build_ema: the files/ pass.  The documents of the qualifying products, *)
(* in iteration order; a document without URL is skipped by the loop, two *)
(* documents of one product may share a file name.                        *)
(***************************************************************************)
Doc(dir, url, filename) == [dir |-> dir, url |-> url, filename |-> filename]

Docs ==
    << Doc(ProductDir1, Url1, "a.pdf"),
       Doc(ProductDir1, <<>>, "n.pdf"),
       Doc(ProductDir1, Url2, "b.pdf"),
       Doc(ProductDir2, Url1, "c.pdf"),
       Doc(ProductDir1, Url2, "a.pdf") >>

NoCall ==
    [called |-> FALSE, target |-> <<>>, link |-> <<>>, allow_broken |-> FALSE,
     pre_fs |-> <<>>, pre_dirs |-> <<>>, pre_stats |-> EmptyStats,
     post_fs |-> <<>>, post_dirs |-> <<>>, post_stats |-> EmptyStats,
     ret |-> FALSE, raised |-> FALSE]

CallRecord(target, link, allow_broken, out) ==
    [called |-> TRUE, target |-> target, link |-> link, allow_broken |-> allow_broken,
     pre_fs |-> fs, pre_dirs |-> dirs, pre_stats |-> stats,
     post_fs |-> out.fs, post_dirs |-> out.dirs, post_stats |-> out.stats,
     ret |-> out.ret, raised |-> out.raised]

NoRun == [ended |-> FALSE, fs |-> <<>>, dirs |-> <<>>, stats |-> EmptyStats, crashed |-> FALSE]

RunRecord == [ended |-> TRUE, fs |-> fs, dirs |-> dirs, stats |-> stats, crashed |-> crashed]

DirStates == {"absent", "dir", "rodir", "file", "denied"}

\* The view variables while another script runs.
NoTree == [dirs |-> {}, links |-> <<>>, files |-> {}, linked |-> 0, skipped |-> 0,
           crashed |-> FALSE]
ViewIdle ==
    /\ vsrc = <<>> /\ vtree = NoTree /\ vscan = <<>> /\ vrun1 = NoTree /\ vrun2 = NoTree

NoTrie == [built |-> FALSE, trie |-> <<>>]
AtcIdle == aprods = <<>> /\ atrie = NoTrie

BuildIdle == bld = <<>> /\ orch = <<>>
PureIdle == fin = <<>> /\ fout = <<>>
RestIdle == BuildIdle /\ PureIdle

InitialEntries(p) ==
    IF p \in RawPaths THEN {NoEntry, FileEntry}
    ELSE {NoEntry, FileEntry, DirEntry,
          SymlinkEntry(RelPath(Raw1, Parent(p))), SymlinkEntry(RelPath(Raw2, Parent(p)))}

\* The accession directory as some earlier activity left it: an entry can only
\* be where its directory is.
InitEma ==
    /\ mode = "ema"
    /\ phase = "run1"
    /\ dirs \in [Dirs -> DirStates]
    /\ fs \in [AllPaths -> UNION {InitialEntries(p) : p \in AllPaths}]
    /\ \A p \in AllPaths : fs[p] \in InitialEntries(p)
    /\ \A p \in LinkPaths : fs[p].kind # "none" => DirExists(dirs, Parent(p))
    /\ stats = EmptyStats
    /\ idx = 1
    /\ crashed = FALSE
    /\ last = NoCall
    /\ run1 = NoRun
    /\ run2 = NoRun
    /\ calls = 0
    /\ pname = <<>>
    /\ paccession = "none"
    /\ presult = Pending
    /\ ViewIdle
    /\ AtcIdle
    /\ RestIdle

\* One iteration of the loop of create_files_symlinks (allow_broken=True).
CreateFilesSymlinksStep ==
    /\ mode = "ema"
    /\ phase \in {"run1", "run2"}
    /\ ~crashed
    /\ idx <= Len(Docs)
    /\ LET doc == Docs[idx]
           target == url_to_raw_path(doc.url)
           link == Append(doc.dir, doc.filename)
           out == create_symlink_safe(fs, dirs, stats, target, link, TRUE)
       IN  IF doc.url = <<>>
           THEN /\ idx' = idx + 1
                /\ UNCHANGED <<fs, dirs, stats, crashed, last>>
           ELSE /\ fs' = out.fs
                /\ dirs' = out.dirs
                /\ stats' = out.stats
                /\ crashed' = out.raised
                /\ idx' = IF out.raised THEN idx ELSE idx + 1
                /\ last' = CallRecord(target, link, TRUE, out)
    /\ UNCHANGED <<mode, phase, run1, run2, calls, parseVars, viewVars, atcVars, restVars>>

\* build_ema returns (or dies with the exception); the operator runs it again
\* on the same accession directory, with a fresh ViewStatistics.
BuildEmaFirstRunEnds ==
    /\ mode = "ema"
    /\ phase = "run1"
    /\ crashed \/ idx > Len(Docs)
    /\ run1' = RunRecord
    /\ phase' = "run2"
    /\ stats' = EmptyStats
    /\ idx' = 1
    /\ crashed' = FALSE
    /\ UNCHANGED <<mode, fs, dirs, last, run2, calls, parseVars, viewVars, atcVars, restVars>>

BuildEmaSecondRunEnds ==
    /\ mode = "ema"
    /\ phase = "run2"
    /\ crashed \/ idx > Len(Docs)
    /\ run2' = RunRecord
    /\ phase' = "done"
    /\ UNCHANGED <<mode, fs, dirs, stats, idx, crashed, last, run1, calls, parseVars, viewVars, atcVars, restVars>>

\* Any other call of the function, with either value of allow_broken.
CreateSymlinkSafeCall(target, link, allow_broken) ==
    /\ mode = "ema"
    /\ phase = "done"
    /\ calls < MaxCalls
    /\ LET out == create_symlink_safe(fs, dirs, stats, target, link, allow_broken)
       IN  /\ fs' = out.fs
           /\ dirs' = out.dirs
           /\ stats' = out.stats
           /\ last' = CallRecord(target, link, allow_broken, out)
    /\ calls' = calls + 1
    /\ UNCHANGED <<mode, phase, idx, crashed, run1, run2, parseVars, viewVars, atcVars, restVars>>

(***************************************************************************)
(* generate_ctd_view, run twice on the same source and target.            *)
(***************************************************************************)
EmaIdle ==
    /\ fs = <<>> /\ dirs = <<>> /\ stats = EmptyStats /\ idx = 0 /\ crashed = FALSE
    /\ last = NoCall /\ run1 = NoRun /\ run2 = NoRun /\ calls = 0

ParseIdle == pname = <<>> /\ paccession = "none" /\ presult = Pending

Accessions == {"RDCP-26-0003", "RDCP-26-0002"}

\* Regular files that may already sit in the target directory: one where a
\* folder of the view goes, one where a symlink of the view goes.
Obstacles ==
    { <<get_ctd_folder_name(<<"3">>)>>,
      <<parse_ctd_info(SourcePool[5].name, "RDCP-26-0002").symlink_name>> }

InitCtd ==
    /\ mode = "ctd"
    /\ phase = "run1"
    /\ \E chosen \in SUBSET (1..Len(SourcePool)), recursive \in BOOLEAN, a \in Accessions :
          /\ Cardinality(chosen) <= MaxFiles
          /\ vsrc = [chosen |-> chosen, recursive |-> recursive, accession |-> a]
    /\ \E pre \in {{}} \cup {{o} : o \in Obstacles} : vtree = [NoTree EXCEPT !.files = pre]
    /\ vscan = EmptyScan
    /\ vrun1 = NoTree
    /\ vrun2 = NoTree
    /\ EmaIdle
    /\ ParseIdle
    /\ AtcIdle
    /\ RestIdle

GenerateCtdView ==
    /\ mode = "ctd"
    /\ phase \in {"run1", "run2"}
    /\ vscan' = scan_directory(vsrc.chosen, vsrc.recursive, vsrc.accession)
    /\ vtree' = MaterializeCtd(vtree, vscan')
    /\ IF phase = "run1"
       THEN vrun1' = vtree' /\ phase' = "run2" /\ UNCHANGED vrun2
       ELSE vrun2' = vtree' /\ phase' = "done" /\ UNCHANGED vrun1
    /\ UNCHANGED <<mode, vsrc, emaVars, parseVars, atcVars, restVars>>

(***************************************************************************)
(* generate_date_view, run twice on the same sources and target.          *)
(***************************************************************************)
StripPatternLists == {<<>>, << <<"IND", " ">> >>}

\* Regular files that may already sit in the target directory: one where a
\* year folder goes, one where a symlink goes.
DateObstacles ==
    { << <<"2", "0", "1", "9">> >>,
      << <<"2", "0", "2", "2", "-", "0", "1", "-", "2", "8", " ", "Clinical", ".", "pdf">> >> }

InitDate ==
    /\ mode = "date"
    /\ phase = "run1"
    /\ \E chosen \in SUBSET (1..Len(DatePool)), sp \in StripPatternLists :
          /\ Cardinality(chosen) <= MaxFiles
          /\ vsrc = [chosen |-> chosen, strip_patterns |-> sp]
    /\ \E pre \in {{}} \cup {{o} : o \in DateObstacles} : vtree = [NoTree EXCEPT !.files = pre]
    /\ vscan = EmptyDateScan
    /\ vrun1 = NoTree
    /\ vrun2 = NoTree
    /\ EmaIdle
    /\ ParseIdle
    /\ AtcIdle
    /\ RestIdle

GenerateDateView ==
    /\ mode = "date"
    /\ phase \in {"run1", "run2"}
    /\ vscan' = ScanDateSources(vsrc.chosen, vsrc.strip_patterns)
    /\ vtree' = MaterializeDate(vtree, vscan')
    /\ IF phase = "run1"
       THEN vrun1' = vtree' /\ phase' = "run2" /\ UNCHANGED vrun2
       ELSE vrun2' = vtree' /\ phase' = "done" /\ UNCHANGED vrun1
    /\ UNCHANGED <<mode, vsrc, emaVars, parseVars, atcVars, restVars>>

(***************************************************************************)
(* build_atc_trie on its own: up to MaxProducts products, each with one   *)
(* of the codes of AtcCodes.                                              *)
(***************************************************************************)
AtcCodes ==
    { <<"L", "0", "1", "F", "F", "0", "2">>, <<"N", "0", "2", "B", "E", "0", "1">>,
      <<"L", "0", "1", "X", "G", "0", "1">>, <<"L", "0", "1">>, <<"L", "0", "1", "F", "F">>, <<>> }

ProductNames ==
    << <<"Alpha", " ", "One">>, <<"Alpha", " ", "Two">>, <<"alpha", " ", "Three">>,
       <<"Para", "/", "Gefi">>, <<"Gefi">> >>

ProductNumber(i) == <<"EMEA", "/", "H", "/", "C", "/", Ascii[17 + i]>>

\* The documents of product i: one or two, the first its assessment report.
DocumentsOf(i) == [j \in 1..(1 + (i % 2)) |-> <<"doc", Ascii[17 + i], Ascii[17 + j]>>]

InitAtc ==
    /\ mode = "atc"
    /\ phase = "idle"
    /\ \E n \in 1..MaxProducts : \E codes \in [1..n -> AtcCodes] :
          aprods = [i \in 1..n |->
                       Qualifying(Medicine(ProductNumber(i), ProductNames[i], codes[i]),
                                  DocumentsOf(i))]
    /\ atrie = NoTrie
    /\ EmaIdle
    /\ ParseIdle
    /\ ViewIdle
    /\ RestIdle

BuildAtcTrie ==
    /\ mode = "atc"
    /\ ~atrie.built
    /\ atrie' = [built |-> TRUE, trie |-> build_atc_trie(aprods)]
    /\ UNCHANGED <<mode, phase, aprods, emaVars, parseVars, viewVars, restVars>>

(***************************************************************************)
(* The parser on its own: every name of up to MaxNameLen tokens, with and *)
(* without the accession that has manual mappings.                        *)
(***************************************************************************)
NameAlphabet == {"1", "6", ".", "-", " ", "P", "Module"}
ManualLiterals == {"__Table Of Contents"}
NamesUpTo(n) == UNION {[1..k -> NameAlphabet] : k \in 0..n}

\* os.listdir never yields "", "." or "..".
IsEntryName(s) == s # <<>> /\ s # <<".">> /\ s # <<".", ".">>

InitParse ==
    /\ mode = "parse"
    /\ phase = "idle"
    /\ \/ pname \in NamesUpTo(MaxNameLen)
       \/ \E l \in ManualLiterals, r \in NamesUpTo(MaxNameLen - 1) : pname = <<l>> \o r
    /\ IsEntryName(pname)
    /\ paccession = "none"
    /\ presult = Pending
    /\ fs = <<>> /\ dirs = <<>> /\ stats = EmptyStats /\ idx = 0 /\ crashed = FALSE
    /\ last = NoCall /\ run1 = NoRun /\ run2 = NoRun /\ calls = 0
    /\ ViewIdle
    /\ AtcIdle
    /\ RestIdle

ParseCtdInfo(accession) ==
    /\ mode = "parse"
    /\ presult = Pending
    /\ paccession' = accession
    /\ presult' = parse_ctd_info(pname, accession)
    /\ UNCHANGED <<mode, phase, pname, emaVars, viewVars, atcVars, restVars>>

vars == <<mode, phase, fs, dirs, stats, idx, crashed, last, run1, run2, calls,
          pname, paccession, presult, vsrc, vtree, vscan, vrun1, vrun2, aprods, atrie,
          bld, orch, fin, fout>>

NextParse == \E a \in Accessions : ParseCtdInfo(a)

SpecParse == InitParse /\ [][NextParse]_vars

NextAtc == BuildAtcTrie

SpecAtc == InitAtc /\ [][NextAtc]_vars

Init == InitEma \/ InitCtd \/ InitDate

Next ==
    \/ CreateFilesSymlinksStep
    \/ BuildEmaFirstRunEnds
    \/ BuildEmaSecondRunEnds
    \/ \E t \in RawPaths, l \in LinkPaths, ab \in BOOLEAN : CreateSymlinkSafeCall(t, l, ab)
    \/ GenerateCtdView
    \/ GenerateDateView

Spec == Init /\ [][Next]_vars
(***************************************************************************)
(* Claims about the parser (checked under SpecParse)                      *)
(***************************************************************************)
NoDots(c) == \A i \in 1..Len(c) : c[i] # "."

\* b is a followed by "." and exactly one more dot-free component
ExtendsByOne(a, b) ==
    /\ Len(b) >= Len(a) + 2
    /\ SubSeq(b, 1, Len(a)) = a
    /\ b[Len(a) + 1] = "."
    /\ NoDots(SubSeq(b, Len(a) + 2, Len(b)))

IsPrefixChain(comps) ==
    /\ Len(comps) >= 1
    /\ comps[1] # <<>> /\ NoDots(comps[1])
    /\ \A i \in 2..Len(comps) : ExtendsByOne(comps[i - 1], comps[i])

\* The classification code shown in an output name: what precedes ")".
CodeOfName(name) ==
    LET k == CHOOSE i \in 1..Len(name) : name[i] = ")" /\ \A j \in 1..(i - 1) : name[j] # ")"
    IN  SubSeq(name, 1, k - 1)

ChainOfFullCode(r) ==
    IsPrefixChain(r.components) /\ Last(r.components) = CodeOfName(r.symlink_name)

PatternFamilies == {"module-first", "module-middle", "code-title", "code-separator"}

FamilyMatches(filename, accession) ==
    << [family |-> "manual",
        matched |-> accession \in ManualAccessions /\ FirstManual(filename) # 0],
       [family |-> "module-first", matched |-> MatchModuleFirst(PathStem(filename)).matched],
       [family |-> "module-middle", matched |-> MatchModuleMiddle(PathStem(filename)).matched],
       [family |-> "code-title", matched |-> MatchCodeTitle(PathStem(filename)).matched],
       [family |-> "csr-appendix", matched |-> MatchCsrAppendix(PathStem(filename)).matched],
       [family |-> "code-separator", matched |-> MatchCodeSeparator(filename).matched] >>

FirstFamily(filename, accession) ==
    LET f == FamilyMatches(filename, accession)
        hits == {i \in 1..Len(f) : f[i].matched}
    IN  IF hits = {} THEN "none" ELSE f[CHOOSE i \in hits : \A j \in hits : i <= j].family

\* C8: the result is that of the first family that matches, in the order manual,
\* Module-first, Module-in-the-middle, code-title, 16.x, code-separator; a
\* manual match returns the literal key-path and output name of its entry.
C8_FirstFamilyWins ==
    presult # Pending =>
        /\ presult.family = FirstFamily(pname, paccession)
        /\ presult.found <=> presult.family # "none"
        /\ presult.family = "manual" =>
              \E i \in 1..Len(MANUAL_CTD_MAPPINGS) :
                  /\ ManualMatches(MANUAL_CTD_MAPPINGS[i], pname)
                  /\ presult.components = MANUAL_CTD_MAPPINGS[i].components
                  /\ presult.symlink_name = MANUAL_CTD_MAPPINGS[i].symlink_name

\* A name that a manual mapping and a later family both match.
C8_Witness ==
    /\ presult.family = "manual"
    /\ ParsePatterns(pname).found
(***************************************************************************)
(* Claims about create_symlink_safe (checked under Spec)                  *)
(***************************************************************************)
\* C2 (as claimed): whatever already occupies the link path (file, directory or
\* symlink), the call leaves it unchanged, returns False and counts one skip
\* without appending an error.
C2_OccupiedPathIsSkipped ==
    last.called /\ last.pre_fs[last.link].kind # "none" =>
        /\ ~last.raised /\ ~last.ret
        /\ last.post_fs[last.link] = last.pre_fs[last.link]
        /\ last.post_stats.symlinks_skipped = last.pre_stats.symlinks_skipped + 1
        /\ last.post_stats.errors = last.pre_stats.errors

\* The OS refuses the directory creation / the symlink creation of the call.
MkdirFailed(c) == MkdirRaises(c.pre_dirs, Parent(c.link))

SymlinkFailed(c) ==
    /\ ~MkdirFailed(c)
    /\ ~IsSymlink(c.pre_fs, c.link)
    /\ c.allow_broken \/ Exists(c.pre_fs, c.target)
    /\ SymlinkRaises(c.pre_fs, MkdirParents(c.pre_dirs, Parent(c.link)), c.link)

\* C3 (as claimed): an OS failure in the directory creation or in the symlink
\* creation does not leave create_symlink_safe; it becomes one entry of
\* stats.errors, the call returns False and the loop goes on.
C3_OsFailureIsCaptured ==
    /\ ~crashed
    /\ last.called /\ (MkdirFailed(last) \/ SymlinkFailed(last)) =>
          /\ ~last.raised /\ ~last.ret
          /\ Len(last.post_stats.errors) = Len(last.pre_stats.errors) + 1

CtdRan == mode = "ctd" /\ phase \in {"run2", "done"}

ScannedFiles == Listing(vsrc.chosen, vsrc.recursive)

InKeyed(f) ==
    \E k \in DOMAIN vscan.files_by_path :
        /\ k # <<>>
        /\ \E i \in 1..Len(vscan.files_by_path[k]) :
              vscan.files_by_path[k][i].source = SourcePath(f)

InRoot(f) == \E i \in 1..Len(vscan.root_files) : vscan.root_files[i].source = SourcePath(f)

InNoCtd(f) ==
    \E i \in 1..Len(vscan.no_ctd_files) : vscan.no_ctd_files[i] = f.dir \o <<f.name>>

RECURSIVE SumLens(_, _)
SumLens(fn, keys) ==
    IF keys = {} THEN 0
    ELSE LET k == CHOOSE x \in keys : TRUE IN Len(fn[k]) + SumLens(fn, keys \ {k})

HasSymlinkTo(f) == \E l \in DOMAIN vtree.links : vtree.links[l] = SourcePath(f)

\* C9: every scanned regular file is in exactly one of the keyed entries, the
\* root-level files and the no-CTD-pattern list; a file whose name matches no
\* pattern is in the no-pattern list and has no symlink in the view, and the
\* files listed after it are still classified.
C9_ScanPartitionsFiles ==
    CtdRan =>
        /\ \A i \in 1..Len(ScannedFiles) :
              LET f == ScannedFiles[i]
              IN  /\ InKeyed(f) \/ InRoot(f) \/ InNoCtd(f)
                  /\ ~(InKeyed(f) /\ InRoot(f))
                  /\ ~(InKeyed(f) /\ InNoCtd(f))
                  /\ ~(InRoot(f) /\ InNoCtd(f))
                  /\ ~parse_ctd_info(f.name, vsrc.accession).found
                        => InNoCtd(f) /\ ~HasSymlinkTo(f)
        /\ SumLens(vscan.files_by_path, DOMAIN vscan.files_by_path)
             + Len(vscan.root_files) + Len(vscan.no_ctd_files) = Len(ScannedFiles)

\* A run that scanned an unmatched file and, after it, a file that got its link.
C9_Witness ==
    /\ CtdRan
    /\ \E i, j \in 1..Len(ScannedFiles) :
          /\ i < j
          /\ InNoCtd(ScannedFiles[i])
          /\ ~HasSymlinkTo(ScannedFiles[i])
          /\ HasSymlinkTo(ScannedFiles[j])

EmptyTargetRun == mode = "ctd" /\ phase = "run2" /\ vtree.files = {}

KeysUnder(c) == {k \in DOMAIN vscan.files_by_path : k[1] = c}

\* The subtree under top-level segment c is one chain that ends in one file.
IsLoneChain(c) ==
    /\ Cardinality(KeysUnder(c)) = 1
    /\ \A k \in KeysUnder(c) : Len(vscan.files_by_path[k]) = 1

DirEntries(d) ==
    {x \in vtree.dirs \cup DOMAIN vtree.links : Len(x) = Len(d) + 1 /\ IsPrefix(d, x)}

IsWrapper(d) ==
    /\ Cardinality(DirEntries(d)) = 1
    /\ DirEntries(d) \subseteq vtree.dirs

NodeOfDir(d) ==
    CHOOSE n \in UNION {{SubSeq(k, 1, i) : i \in 1..Len(k)} : k \in DOMAIN vscan.files_by_path} :
        /\ Len(n) = Len(d)
        /\ \A i \in 1..Len(d) : get_ctd_folder_name(n[i]) = d[i]

TotalItems(n) ==
    Cardinality(ChildComps(vscan.files_by_path, n)) + Len(FilesAt(vscan.files_by_path, n))

C1_SecondRunIsIdempotent ==
    /\ (mode = "ema" /\ run2.ended) =>
          /\ run2.stats.symlinks_created = 0
          /\ run2.stats.symlinks_skipped
                = run1.stats.symlinks_created + run1.stats.symlinks_skipped
          /\ run2.fs = run1.fs
          /\ run2.dirs = run1.dirs
    /\ (mode \in {"ctd", "date"} /\ phase = "done") =>
          /\ vrun2.linked = 0
          /\ vrun2.skipped = vrun1.linked + vrun1.skipped
          /\ vrun2.dirs = vrun1.dirs
          /\ vrun2.links = vrun1.links

\* Two runs of generate_ctd_view, the first of which made folders, created
\* symlinks and skipped one.
C1_Witness ==
    /\ mode = "ctd" /\ phase = "done"
    /\ vrun1.dirs # {} /\ vrun1.linked >= 2 /\ vrun1.skipped >= 1
    /\ vrun2.skipped >= 3

C1_WitnessEma ==
    /\ mode = "ema" /\ run2.ended
    /\ run1.stats.symlinks_created >= 2 /\ run1.stats.symlinks_skipped >= 1
    /\ run2.stats.symlinks_skipped >= 3

C1_WitnessDate ==
    /\ mode = "date" /\ phase = "done"
    /\ vrun1.dirs # {} /\ vrun1.linked >= 2 /\ vrun1.skipped >= 1
    /\ vrun2.skipped >= 3

(***************************************************************************)
(* Claims about the ATC trie (checked under SpecAtc)                      *)
(***************************************************************************)
\* The directory nodes of a trie, at any depth, by name and children.
RECURSIVE DirsIn(_)
DirsIn(trie) ==
    LET ds == {k \in DOMAIN trie : trie[k].kind = "dir"}
    IN  {[name |-> k, children |-> trie[k].children] : k \in ds}
            \cup UNION {DirsIn(trie[k].children) : k \in ds}

HasLeafOf(trie, med) ==
    \E k \in DOMAIN trie : trie[k].kind = "leaf" /\ trie[k].med = med.product_number

WithCode(c) == {i \in 1..Len(aprods) : aprods[i].atc_code = c}

\* The directory nodes named after code c (in its seven-character form, as
\* every name carries it): "{code}) ..."
SubstanceDirs(c) == {d \in DirsIn(atrie.trie) : CodeOfName(d.name) = normalize_atc(c)}

\* First half: three or more products with one ATC code are the leaves of one
\* directory named after that code, and none of them is a top-level leaf.
C7_SharedCodeGetsSubstanceDir ==
    atrie.built =>
        \A c \in AtcCodes \ {<<>>} :
            Cardinality(WithCode(c)) >= 3 =>
                /\ Cardinality(SubstanceDirs(c)) = 1
                /\ \A d \in SubstanceDirs(c), i \in WithCode(c) : HasLeafOf(d.children, aprods[i])
                /\ \A i \in WithCode(c) : ~HasLeafOf(atrie.trie, aprods[i])

SharesFirstLetter(i, j) ==
    normalize_atc(aprods[i].atc_code)[1] = normalize_atc(aprods[j].atc_code)[1]

\* Second half: a product whose code no other product has, and whose first
\* letter no other product shares, is one top-level leaf named
\* "{code}) {name} - {product-id}", and no directory holds it.
C7_LoneCodeIsTopLevelLeaf ==
    atrie.built =>
        \A i \in 1..Len(aprods) :
            (\A j \in 1..Len(aprods) \ {i} : ~SharesFirstLetter(i, j)) =>
                /\ Cardinality({k \in DOMAIN atrie.trie :
                                   /\ atrie.trie[k].kind = "leaf"
                                   /\ atrie.trie[k].med = aprods[i].product_number}) = 1
                /\ \A k \in DOMAIN atrie.trie :
                      (atrie.trie[k].kind = "leaf" /\ atrie.trie[k].med = aprods[i].product_number)
                          => atrie.trie[k].display_name
                                = normalize_atc(aprods[i].atc_code) \o <<")", " ">> \o aprods[i].name
                                    \o <<" ", "-", " ">> \o escape_product_number(aprods[i].product_number)
                /\ \A d \in DirsIn(atrie.trie) : ~HasLeafOf(d.children, aprods[i])

\* C7 (as claimed): build_atc_trie puts three or more products that share one
\* ATC code as leaves into exactly one directory named after that code, never
\* as separate leaves elsewhere; and a product that alone carries its code and
\* its first letter is exactly one top-level leaf "{code}) {name} - {id}"
\* that no directory wraps.
C7_AtcTrieEndToEnd == C7_SharedCodeGetsSubstanceDir /\ C7_LoneCodeIsTopLevelLeaf

\* The scenario of the claim: three products with L01FF02 in one directory
\* next to the lone N02BE01 leaf.
C7_Scenario ==
    /\ atrie.built
    /\ Cardinality(WithCode(<<"L", "0", "1", "F", "F", "0", "2">>)) = 3
    /\ Cardinality(WithCode(<<"N", "0", "2", "B", "E", "0", "1">>)) = 1
    /\ Cardinality(SubstanceDirs(<<"L", "0", "1", "F", "F", "0", "2">>)) = 1
    /\ Cardinality(DOMAIN atrie.trie) = 2

(***************************************************************************)
(* Link texts (checked under Spec)                                        *)
(***************************************************************************)
\* A link text is absolute when it starts at the filesystem root.
IsAbsolute(text) == text # <<>> /\ text[1] = "/"

\* The symlink the last create_symlink_safe call created, if any.
CallCreatedLink(c) ==
    c.called /\ c.ret /\ c.pre_fs[c.link].kind = "none" /\ IsSymlink(c.post_fs, c.link)

\* The create_symlink_safe half of C11: the text it stores is relative to the
\* parent directory of the link and leads from there to the target.
C11_SafeLinksAreRelative ==
    CallCreatedLink(last) =>
        /\ ~IsAbsolute(last.post_fs[last.link].text)
        /\ Resolve(Parent(last.link), last.post_fs[last.link].text) = last.target

\* C11 (as claimed): every symlink a view materializer creates
\* (create_symlink_safe, generate_ctd_view, generate_date_view) stores a
\* target that is relative to the parent directory of the link.
C11_ViewLinksAreRelative ==
    /\ C11_SafeLinksAreRelative
    /\ mode \in {"ctd", "date"} =>
          \A p \in DOMAIN vtree.links : ~IsAbsolute(vtree.links[p])

(***************************************************************************)
(* build_ema as a whole, seen from the accession directory: the entries   *)
(* directly below EMA_ACCESSION_DIR.  The reference data is missing,      *)
(* holds no record, or is loaded; `qualifying` is the number of products  *)
(* that filter_qualifying_products keeps (each with a document URL).      *)
(***************************************************************************)
MaxQualifying == 2

AccessionEntries == {"files", "By-ATC", "metadata.json", "notes"}

AbsentDir == [exists |-> FALSE, entries |-> {}]

ReferenceData == {"missing", "empty", "loaded"}

\* load_medicines / load_documents: an empty dict or list unless records load
LoadsNothing(data) == data # "loaded"

\* if clean and EMA_ACCESSION_DIR.exists(): shutil.rmtree (unless dry_run)
CleanAccession(acc, clean, dry_run) ==
    IF clean /\ acc.exists /\ ~dry_run THEN AbsentDir ELSE acc

\* EMA_ACCESSION_DIR.mkdir, the files/ symlinks, the By-ATC view, metadata.json
PopulateAccession(acc, qualifying, dry_run) ==
    IF dry_run THEN acc
    ELSE [exists |-> TRUE,
          entries |-> acc.entries \cup {"metadata.json"}
                        \cup (IF qualifying > 0 THEN {"files", "By-ATC"} ELSE {})]

build_ema(b) ==
    LET cleaned == CleanAccession(b.acc, b.clean, b.dry_run)
    IN  IF LoadsNothing(b.medicines) \/ LoadsNothing(b.documents)
        THEN [b EXCEPT !.acc = cleaned, !.result = "False"]
        ELSE [b EXCEPT !.acc = PopulateAccession(cleaned, b.qualifying, b.dry_run),
                       !.result = "True"]

InitBuildEma ==
    /\ mode = "build_ema"
    /\ phase = "idle"
    /\ \E clean \in BOOLEAN, dry_run \in BOOLEAN, m \in ReferenceData, d \in ReferenceData,
          q \in 0..MaxQualifying, e \in SUBSET AccessionEntries, x \in BOOLEAN :
          /\ q > 0 => m = "loaded" /\ d = "loaded"
          /\ ~x => e = {}
          /\ bld = [clean |-> clean, dry_run |-> dry_run, medicines |-> m, documents |-> d,
                    qualifying |-> q, acc |-> [exists |-> x, entries |-> e],
                    before |-> [exists |-> x, entries |-> e], result |-> "pending"]
    /\ orch = <<>>
    /\ EmaIdle /\ ParseIdle /\ ViewIdle /\ AtcIdle /\ PureIdle

BuildEma ==
    /\ mode = "build_ema"
    /\ bld.result = "pending"
    /\ bld' = build_ema(bld)
    /\ UNCHANGED <<mode, phase, orch, emaVars, parseVars, viewVars, atcVars, pureVars>>

(***************************************************************************)
(* build.py main: the options (the set of flags given), the steps it      *)
(* plans and runs.  A step is a script run as a subprocess; whether it    *)
(* succeeds is not decided by main.                                       *)
(***************************************************************************)
Flags == {"clean", "no_download", "no_extract", "no_reorganize", "no_views", "no_toc",
          "no_ema", "views_only", "toc_only"}

\* "Handle shortcut options"
HandleShortcuts(args) ==
    args \cup (IF "toc_only" \in args
               THEN {"no_download", "no_extract", "no_reorganize", "no_views"} ELSE {})
         \cup (IF "views_only" \in args
               THEN {"no_download", "no_extract", "no_reorganize"} ELSE {})

StepsUnless(flag, args, names) == IF flag \in args THEN <<>> ELSE names

\* steps, in the order main appends them
PlanSteps(args) ==
    StepsUnless("no_download", args, <<"Download">>)
      \o StepsUnless("no_extract", args, <<"Extract">>)
      \o StepsUnless("no_reorganize", args, <<"Reorganize", "URL Symlinks">>)
      \o StepsUnless("no_views", args, <<"Views">>)
      \o StepsUnless("no_ema", args, <<"EMA">>)
      \o StepsUnless("no_toc", args, <<"TOC", "Indexes">>)

\* the loop over steps: every step is run, the failing ones are collected
FailedSteps(steps, failing) == SelectSeq(steps, LAMBDA n : n \in failing)

main(args, failing) ==
    LET steps == PlanSteps(HandleShortcuts(args))
    IN  [args |-> args, steps |-> steps, ran |-> steps,
         failed |-> FailedSteps(steps, failing),
         rc |-> IF FailedSteps(steps, failing) = <<>> THEN 0 ELSE 1]

NotStarted(args) == [args |-> args, steps |-> <<>>, ran |-> <<>>, failed |-> <<>>, rc |-> -1]

InitMain ==
    /\ mode = "build"
    /\ phase = "idle"
    /\ \E args \in SUBSET Flags : orch = NotStarted(args)
    /\ bld = <<>>
    /\ EmaIdle /\ ParseIdle /\ ViewIdle /\ AtcIdle /\ PureIdle

\* One run of main; `failing` are the steps whose script returns non-zero.
Main(failing) ==
    /\ mode = "build"
    /\ orch.rc = -1
    /\ failing \subseteq {PlanSteps(HandleShortcuts(orch.args))[i] :
                              i \in 1..Len(PlanSteps(HandleShortcuts(orch.args)))}
    /\ orch' = main(orch.args, failing)
    /\ UNCHANGED <<mode, phase, bld, emaVars, parseVars, viewVars, atcVars, pureVars>>

StepNames == {"Download", "Extract", "Reorganize", "URL Symlinks", "Views", "EMA", "TOC", "Indexes"}

NextBuild == BuildEma \/ \E failing \in SUBSET StepNames : Main(failing)

SpecBuild == (InitBuildEma \/ InitMain) /\ [][NextBuild]_vars

(***************************************************************************)
(* Claims about build_ema and build.py (checked under SpecBuild)          *)
(***************************************************************************)
BuildAborted == mode = "build_ema" /\ bld.result = "False"

\* C12 (as claimed): when the medicines or the documents data is missing or
\* holds no record, build_ema returns False and the accession directory is
\* exactly as it was before the call.
C12_AbortLeavesAccessionUntouched ==
    /\ mode = "build_ema" /\ bld.result # "pending"
          /\ (LoadsNothing(bld.medicines) \/ LoadsNothing(bld.documents)) => BuildAborted
    /\ BuildAborted => bld.acc = bld.before

\* What holds of an aborted build: nothing is created, and the directory is
\* untouched unless --clean removed it before the data was loaded.
C12_AbortCreatesNothing ==
    BuildAborted =>
        /\ bld.acc.entries \subseteq bld.before.entries
        /\ (~bld.clean \/ bld.dry_run) => bld.acc = bld.before

\* C17 (as claimed): with --toc-only the steps run are exactly TOC and Indexes.
C17_TocOnlyRunsOnlyToc ==
    mode = "build" /\ orch.rc # -1 /\ "toc_only" \in orch.args =>
        /\ \A i \in 1..Len(orch.ran) : orch.ran[i] \in {"TOC", "Indexes"}
        /\ "no_toc" \notin orch.args => orch.ran = <<"TOC", "Indexes">>

\* What holds with --toc-only: no Download, Extract, Reorganize, URL Symlinks
\* or Views step; the EMA step runs unless --no-ema is given.
C17_TocOnlySkipsIngestionAndViews ==
    mode = "build" /\ orch.rc # -1 /\ "toc_only" \in orch.args =>
        /\ \A i \in 1..Len(orch.ran) : orch.ran[i] \in {"EMA", "TOC", "Indexes"}
        /\ ("EMA" \in {orch.ran[i] : i \in 1..Len(orch.ran)}) <=> "no_ema" \notin orch.args

(***************************************************************************)
(* Helper functions on their own: escape_for_path (applied once, then     *)
(* again to its result), extract_common_name and parse_date.              *)
(***************************************************************************)
\* Longest string (in characters) given to escape_for_path.
MaxStrLen == 5
\* Most names given to extract_common_name.
MaxNames == 3

EscapeAlphabet == {"/", "BSLASH", "*", "-", "a"}

NotCalled == [called |-> 0, value |-> <<>>, again |-> <<>>]

InitEscape ==
    /\ mode = "escape"
    /\ fin \in UNION {[1..k -> EscapeAlphabet] : k \in 0..MaxStrLen}
    /\ fout = NotCalled

EscapeForPath ==
    /\ mode = "escape"
    /\ fout.called = 0
    /\ fout' = [called |-> 1, value |-> escape_for_path(fin), again |-> <<>>]
    /\ UNCHANGED <<mode, phase, fin, buildVars, emaVars, parseVars, viewVars, atcVars>>

EscapeForPathAgain ==
    /\ mode = "escape"
    /\ fout.called = 1
    /\ fout' = [fout EXCEPT !.called = 2, !.again = escape_for_path(fout.value)]
    /\ UNCHANGED <<mode, phase, fin, buildVars, emaVars, parseVars, viewVars, atcVars>>

\* Product display names: words in several spellings, blanks, an empty name.
NamePool ==
    { <<"Alpha", " ", "One">>, <<"alpha", " ", "One", " ", "Two">>, <<"Alpha">>,
      <<"Alpha", " ", " ", "one", " ", "Three">>, <<"Para", " ", "One">>, <<>> }

InitCommonName ==
    /\ mode = "common"
    /\ fin \in UNION {[1..k -> NamePool] : k \in 0..MaxNames}
    /\ fout = NotCalled

ExtractCommonName ==
    /\ mode = "common"
    /\ fout.called = 0
    /\ fout' = [called |-> 1, value |-> extract_common_name(fin), again |-> <<>>]
    /\ UNCHANGED <<mode, phase, fin, buildVars, emaVars, parseVars, viewVars, atcVars>>

\* Calendar dates and their three notations.
Years == { <<"2", "0", "1", "9">>, <<"2", "0", "2", "2">> }
MonthNames == {"Dec", "Jan", "jan"}
Days == { <<"3", "1">>, <<"5">>, <<"0", "5">> }
Notations == {"YYYYMonDD", "DDMonYYYY", "YYYY-MM-DD"}

Notation(n, y, m, d) ==
    IF n = "YYYYMonDD" THEN y \o <<m>> \o d
    ELSE IF n = "DDMonYYYY" THEN d \o <<m>> \o y
    ELSE y \o <<"-">> \o MONTHS[m] \o <<"-">> \o zfill2(d)

\* Text around the date in a name
TextsBefore == { <<>>, <<"alpha", " ">>, <<" ">>, <<"alpha", "_">>,
                 <<"2", "8", "Jan", "2", "0", "2", "2", " ">> }
TextsAfter == { <<>>, <<" ", "beta">>, <<" ">>, <<".", "pdf">> }

InitParseDate ==
    /\ mode = "parse_date"
    /\ \E pre \in TextsBefore, post \in TextsAfter :
          \/ fin = [text |-> pre \o post, dated |-> FALSE, pre |-> pre, post |-> post,
                    notation |-> "none", y |-> <<>>, m |-> "none", d |-> <<>>]
          \/ \E n \in Notations, y \in Years, m \in MonthNames, d \in Days :
                fin = [text |-> pre \o Notation(n, y, m, d) \o post, dated |-> TRUE,
                       pre |-> pre, post |-> post, notation |-> n, y |-> y, m |-> m, d |-> d]
    /\ fout = NotCalled

ParseDate ==
    /\ mode = "parse_date"
    /\ fout.called = 0
    /\ fout' = [called |-> 1, value |-> parse_date(fin.text), again |-> <<>>]
    /\ UNCHANGED <<mode, phase, fin, buildVars, emaVars, parseVars, viewVars, atcVars>>

\* Codes as build_level holds them (normalized), as the data holds them, and
\* one whose filler sits before its last level.
LevelCodes ==
    AtcCodes \cup {normalize_atc(c) : c \in AtcCodes}
        \cup { <<"L", "0", "1", "X", "X", "0", "5">>, <<"X">> }

CurrentLens == 0..(AtcLength + 1)

InitNextLevel ==
    /\ mode = "next_level"
    /\ \E code \in LevelCodes, current_len \in CurrentLens :
          fin = [code |-> code, current_len |-> current_len]
    /\ fout = NotCalled

GetNextMeaningfulLevel ==
    /\ mode = "next_level"
    /\ fout.called = 0
    /\ fout' = [called |-> 1, value |-> get_next_meaningful_level(fin.code, fin.current_len),
                again |-> <<>>]
    /\ UNCHANGED <<mode, phase, fin, buildVars, emaVars, parseVars, viewVars, atcVars>>

(***************************************************************************)
(* download_ema_file.py: the resolver of a symlink chain.  A chain is     *)
(* `links` symlinks, positions 1..links, each pointing at the next; the   *)
(* last points at position links + 1, a path in _raw/ (a file or nothing), *)
(* or back at position 1.  The links are all absolute or all relative and *)
(* live under _raw/ or under files/.                                      *)
(***************************************************************************)
MaxHops == 10
MaxChain == 12

Chains ==
    [links : 1..MaxChain, absolute : BOOLEAN, in_raw : BOOLEAN, end : {"file", "missing", "loop"}]

IsSymlinkAt(c, p) == p <= c.links
Readlink(c, p) == IF p = c.links /\ c.end = "loop" THEN 1 ELSE p + 1

\* current.relative_to(RAW_DIR) succeeds
UnderRaw(c, p) == p = c.links + 1 \/ c.in_raw

Resolved(p) == [raised |-> FALSE, path |-> p]
SymlinkLoop == [raised |-> TRUE, path |-> 0]

\* The loop of resolve_symlink_to_raw with `hops` rounds left.  A relative
\* target goes through Path.resolve(), which follows the whole chain and
\* raises RuntimeError on a symlink loop.
RECURSIVE Follow(_, _, _)
Follow(c, current, hops) ==
    IF hops = 0 \/ ~IsSymlinkAt(c, current) THEN Resolved(current)
    ELSE IF c.absolute THEN Follow(c, Readlink(c, current), hops - 1)
    ELSE IF c.end = "loop" THEN SymlinkLoop
    ELSE Follow(c, c.links + 1, hops - 1)

\* Both branches after the loop return current.
resolve_symlink_to_raw(c, symlink_path) == Follow(c, symlink_path, MaxHops)

\* download_from_symlink up to its call of download_from_url: an error
\* message and False, the exception of the resolver, or the download of the
\* URL of the path the resolver returned.
download_from_symlink(c, symlink_path) ==
    LET raw_path == resolve_symlink_to_raw(c, symlink_path)
    IN  IF ~IsSymlinkAt(c, symlink_path) THEN [outcome |-> "error", raw_path |-> Resolved(0)]
        ELSE IF raw_path.raised THEN [outcome |-> "raised", raw_path |-> raw_path]
        ELSE IF ~UnderRaw(c, raw_path.path) THEN [outcome |-> "error", raw_path |-> raw_path]
        ELSE [outcome |-> "download", raw_path |-> raw_path]

InitResolve ==
    /\ mode = "resolve"
    /\ fin \in Chains
    /\ fout = NotCalled

DownloadFromSymlink ==
    /\ mode = "resolve"
    /\ fout.called = 0
    /\ fout' = [called |-> 1, value |-> download_from_symlink(fin, 1), again |-> <<>>]
    /\ UNCHANGED <<mode, phase, fin, buildVars, emaVars, parseVars, viewVars, atcVars>>

InitPure ==
    /\ InitEscape \/ InitCommonName \/ InitParseDate \/ InitNextLevel \/ InitResolve
    /\ phase = "idle"
    /\ BuildIdle /\ EmaIdle /\ ParseIdle /\ ViewIdle /\ AtcIdle

NextPure ==
    \/ EscapeForPath \/ EscapeForPathAgain \/ ExtractCommonName \/ ParseDate
    \/ GetNextMeaningfulLevel
    \/ DownloadFromSymlink

SpecPure == InitPure /\ [][NextPure]_vars

(***************************************************************************)
(* Claims about the helper functions (checked under SpecPure)             *)
(***************************************************************************)
HasDoubleDash(s) == \E i \in 1..(Len(s) - 1) : s[i] = "-" /\ s[i + 1] = "-"

\* The characters of s that are neither replaced nor dashes, in order.
KeptChars(s) == SelectSeq(s, LAMBDA c : c \notin PathUnsafe /\ c # "-")

\* C13: the output of escape_for_path holds none of / \ : < > " | ? * and no
\* "--", keeps the other characters in order, puts a dash wherever unsafe
\* characters or dashes separated two kept characters, and applying the
\* function to its own output changes nothing.
C13_EscapeIsSafeAndIdempotent ==
    mode = "escape" /\ fout.called >= 1 =>
        /\ \A i \in 1..Len(fout.value) : fout.value[i] \notin PathUnsafe
        /\ ~HasDoubleDash(fout.value)
        /\ KeptChars(fout.value) = KeptChars(fin)
        /\ \A i \in 1..(Len(fin) - 1) :
              fin[i] = "a" /\ fin[i + 1] # "a" /\ (\E j \in (i + 2)..Len(fin) : fin[j] = "a")
                  => \E k \in 1..(Len(fout.value) - 1) :
                         /\ fout.value[k] = "a" /\ fout.value[k + 1] = "-"
                         /\ Len(KeptChars(SubSeq(fout.value, 1, k))) = Len(KeptChars(SubSeq(fin, 1, i)))
        /\ fout.called = 2 => fout.again = fout.value

\* "a/*a": unsafe characters were replaced, dashes collapsed, and the
\* function was applied a second time.
C13_Witness ==
    /\ mode = "escape" /\ fout.called = 2
    /\ fin = <<"a", "/", "*", "a">>
    /\ fout.value = <<"a", "-", "a">>

\* All names have a k-th word, and it is the k-th word of the first name up
\* to letter case.
SharedAt(names, k) ==
    \A i \in 1..Len(names) :
        /\ Len(SplitWords(names[i])) >= k
        /\ Lower(SplitWords(names[i])[k]) = Lower(SplitWords(names[1])[k])

\* C14: extract_common_name returns the longest run of leading words shared
\* by all names (compared without regard to case), spelled as in the first
\* name and joined by single blanks; none for an empty list or when the
\* names share no first word.
C14_LongestSharedLeadingWords ==
    mode = "common" /\ fout.called = 1 =>
        IF fin = <<>> \/ ~SharedAt(fin, 1)
        THEN fout.value = None
        ELSE \E n \in 1..Len(SplitWords(fin[1])) :
                /\ \A k \in 1..n : SharedAt(fin, k)
                /\ ~SharedAt(fin, n + 1)
                /\ fout.value = JoinWords(SubSeq(SplitWords(fin[1]), 1, n))

\* "Alpha One" and "alpha One Two" share two words; the result is spelled as
\* in the first name.
C14_Witness ==
    /\ mode = "common" /\ fout.called = 1
    /\ fin = << <<"Alpha", " ", "One">>, <<"alpha", " ", "One", " ", "Two">> >>
    /\ fout.value = <<"Alpha", " ", "One">>

\* The normalized form of the calendar date (y, m, d): year, two-digit month
\* number and two-digit day joined by dashes.
TwoDigitDay(d) == IF Len(d) = 1 THEN <<"0", d[1]>> ELSE d
MonthNumber(m) == IF m \in {"Jan", "jan"} THEN <<"0", "1">> ELSE <<"1", "2">>
Normalized(y, m, d) == y \o <<"-">> \o MonthNumber(m) \o <<"-">> \o TwoDigitDay(d)

\* The text before the date that holds a date of its own.
DatedBefore == <<"2", "8", "Jan", "2", "0", "2", "2", " ">>

\* The date of the name is the only date in the name; the name holds no date.
OnlyDate == fin.dated /\ fin.pre # DatedBefore
NoDateInName == ~fin.dated /\ fin.pre # DatedBefore

\* C15: whichever of the notations YYYYMonDD, DDMonYYYY (month in any letter
\* case, one-digit days padded) and YYYY-MM-DD a calendar date is written in,
\* parse_date yields the same normalized YYYY-MM-DD string for it.
C15_NotationsGiveSameDate ==
    mode = "parse_date" /\ fout.called = 1 /\ OnlyDate =>
        /\ fout.value.found
        /\ fout.value.date_str = Normalized(fin.y, fin.m, fin.d)

\* 5jan2019, a one-digit day before a lower-case month, gives 2019-01-05.
C15_Witness ==
    /\ mode = "parse_date" /\ fout.called = 1
    /\ fin.text = <<"5", "jan", "2", "0", "1", "9">>
    /\ fout.value.date_str = <<"2", "0", "1", "9", "-", "0", "1", "-", "0", "5">>

\* No blank at either end and no two blanks in a row.
WhitespaceCollapsed(s) ==
    /\ s # <<>> => s[1] # " " /\ s[Len(s)] # " "
    /\ \A i \in 1..(Len(s) - 1) : ~(s[i] = " " /\ s[i + 1] = " ")

\* C16: parse_date returns the first date found together with the remaining
\* text, the input without the date substring and with whitespace collapsed;
\* a name without a date gives no date and the text unchanged.
C16_RemainingIsCollapsed ==
    mode = "parse_date" /\ fout.called = 1 =>
        IF NoDateInName
        THEN ~fout.value.found /\ fout.value.remaining = fin.text
        ELSE fout.value.found /\ WhitespaceCollapsed(fout.value.remaining)

\* The part of C16 that the code keeps: the remaining text is the input
\* without the matched date, stripped at both ends only.
C16_RemainingIsStripped ==
    mode = "parse_date" /\ fout.called = 1 =>
        /\ OnlyDate => fout.value.found /\ fout.value.remaining = Strip(fin.pre \o fin.post)
        /\ NoDateInName => ~fout.value.found /\ fout.value.remaining = fin.text

(***************************************************************************)
(* More claims about the ATC trie (checked under SpecAtc)                 *)
(***************************************************************************)
\* C19: whenever two or more products share one normalized ATC code, all of
\* them are leaves of one folder named "{code}) {substance name}", whatever
\* other codes the input has and in whatever order.
C19_SharedCodeAlwaysGetsSubstanceDir ==
    atrie.built =>
        \A c \in AtcCodes :
            Cardinality(WithCode(c)) >= 2 =>
                \E d \in SubstanceDirs(c) :
                    \A i \in WithCode(c) : HasLeafOf(d.children, aprods[i])

\* A name of the form ") ...": the folder of the empty prefix.
IsEmptyPrefixName(name) == name # <<>> /\ name[1] = ")"

AllShareOneCode == \A i, j \in 1..Len(aprods) : aprods[i].atc_code = aprods[j].atc_code

\* C20: the top level of build_atc_trie never produces a wrapping folder: no
\* top-level entry is a folder of the empty prefix, and the entries of the
\* first grouping level (prefix length 1) are the top-level entries
\* themselves, also when all products share a single code.
C20_TopLevelIsNeverWrapped ==
    atrie.built =>
        /\ \A k \in DOMAIN atrie.trie :
              /\ ~IsEmptyPrefixName(k)
              /\ ~IsEmptyPrefixName(atrie.trie[k].display_name)
        /\ atrie.trie = build_level(GroupByAtc(<<>>, aprods), 1, <<>>)

\* Products with the first letters L and N give two top-level entries, one
\* of them a folder of the first level.
C20_Witness ==
    /\ atrie.built
    /\ Len(aprods) = 3
    /\ aprods[1].atc_code = <<"L", "0", "1", "F", "F", "0", "2">>
    /\ aprods[2].atc_code = <<"N", "0", "2", "B", "E", "0", "1">>
    /\ aprods[3].atc_code = <<"L", "0", "1", "X", "G", "0", "1">>
    /\ Cardinality(DOMAIN atrie.trie) = 2
    /\ \E k \in DOMAIN atrie.trie : atrie.trie[k].kind = "dir" /\ k[1] = "L"

\* Several products that all share one code give one top-level entry, the
\* folder of their code.
C20_SingleCodeCase ==
    /\ atrie.built /\ Len(aprods) >= 2 /\ AllShareOneCode
    /\ Cardinality(DOMAIN atrie.trie) = 1
    /\ Cardinality(SubstanceDirs(aprods[1].atc_code)) = 1

\* The build_level calls that one call makes, itself included: each with its
\* codes_products, prefix_len and parent_prefix.
RECURSIVE LevelCalls(_, _, _)
LevelCalls(codes_products, prefix_len, parent_prefix) ==
    IF codes_products = <<>> THEN {}
    ELSE
      LET groups == GroupByPrefix(<<>>, codes_products, prefix_len)
          NextOf(g) == get_next_meaningful_level(g.sub_codes[1].code, prefix_len)
          Recursion(g) ==
            IF IsDuplicatePrefix(g.prefix, parent_prefix)
            THEN IF NextOf(g) >= NoFurtherLevel THEN {}
                 ELSE LevelCalls(g.sub_codes, NextOf(g), parent_prefix)
            ELSE IF CountProducts(g.sub_codes) = 1 THEN {}
            ELSE IF NextOf(g) >= NoFurtherLevel THEN {}
            ELSE IF Len(g.sub_codes) = 1 /\ Len(g.sub_codes[1].code) <= prefix_len THEN {}
            ELSE LevelCalls(g.sub_codes, NextOf(g), g.prefix)
      IN  {[codes_products |-> codes_products, prefix_len |-> prefix_len,
            parent_prefix |-> parent_prefix]}
              \cup UNION {Recursion(groups[i]) : i \in 1..Len(groups)}

\* The groups with two or more distinct codes that build_atc_trie meets below
\* the top level and hands to the multi-code branch, each with its call.
MultiCodeGroups ==
    UNION { LET groups == GroupByPrefix(<<>>, c.codes_products, c.prefix_len)
            IN  {[group |-> groups[i], prefix_len |-> c.prefix_len,
                  parent_prefix |-> c.parent_prefix] :
                     i \in {j \in 1..Len(groups) :
                               /\ Len(groups[j].sub_codes) >= 2
                               /\ ~IsDuplicatePrefix(groups[j].prefix, c.parent_prefix)}}
          : c \in {d \in LevelCalls(GroupByAtc(<<>>, aprods), 0, <<>>) : d.prefix_len > 0} }

\* What build_level adds to result for one group.
Emitted(m) == BuildGroups(<<>>, <<m.group>>, m.prefix_len, m.parent_prefix)

NextLevelOf(m) == get_next_meaningful_level(m.group.sub_codes[1].code, m.prefix_len)

\* The products that are leaves of a trie, at any depth.
RECURSIVE LeavesIn(_)
LeavesIn(trie) ==
    {trie[k].med : k \in {l \in DOMAIN trie : trie[l].kind = "leaf"}}
        \cup UNION {LeavesIn(trie[k].children) : k \in {l \in DOMAIN trie : trie[l].kind = "dir"}}

ProductsOf(m) ==
    UNION {{m.group.sub_codes[i].prods[j].product_number : j \in 1..Len(m.group.sub_codes[i].prods)}
              : i \in 1..Len(m.group.sub_codes)}

\* The group is merged into its parent when the recursion gave one child, and
\* is one folder "{prefix}) {name}" holding all its products otherwise.
MergedOrWrapped(m, children) ==
    IF Cardinality(DOMAIN children) = 1
    THEN Emitted(m) = children
    ELSE /\ DOMAIN Emitted(m)
              = {m.group.prefix \o <<")", " ">> \o escape_for_path(<<get_atc_name(m.group.prefix)>>)}
         /\ \A k \in DOMAIN Emitted(m) :
               /\ Emitted(m)[k].kind = "dir"
               /\ Emitted(m)[k].children = children
               /\ LeavesIn(children) = ProductsOf(m)

\* C18: every group below the top level that holds two or more distinct
\* codes is built by recursing at the next meaningful split length, and comes
\* out merged into its parent (one child) or as exactly one folder named
\* "{collapsed prefix}) {name}" with all the group's products (several
\* children), never as several siblings directly in the parent.
C18_MultiCodeGroupRecurses ==
    atrie.built =>
        \A m \in MultiCodeGroups :
            /\ NextLevelOf(m) < NoFurtherLevel
            /\ MergedOrWrapped(m, build_level(m.group.sub_codes, NextLevelOf(m), m.group.prefix))

\* The part of C18 that the code keeps: a multi-code group that has a next
\* meaningful level is merged or wrapped as claimed.
C18_RecursingGroupMergedOrWrapped ==
    atrie.built =>
        \A m \in MultiCodeGroups :
            NextLevelOf(m) < NoFurtherLevel =>
                MergedOrWrapped(m, build_level(m.group.sub_codes, NextLevelOf(m), m.group.prefix))

\* Stated for the groups without a next meaningful level alone: such a group
\* adds a single entry to its parent.
C18_NoMultiCodeGroupIsFlat ==
    atrie.built =>
        \A m \in MultiCodeGroups :
            NextLevelOf(m) >= NoFurtherLevel => Cardinality(DOMAIN Emitted(m)) = 1

(***************************************************************************)
(* get_next_meaningful_level (checked under SpecPure)                     *)
(***************************************************************************)
LevelBoundaries == {AtcLevels[i] : i \in 1..Len(AtcLevels)}

\* The boundaries after current_len where the collapsed prefix of the code is
\* another one than at current_len.
DifferingBoundaries(code, current_len) ==
    {b \in LevelBoundaries :
        /\ b > current_len
        /\ get_collapsed_prefix(code, b) # get_collapsed_prefix(code, current_len)}

\* C22: get_next_meaningful_level returns the smallest boundary of
\* {1,3,4,5,7} above current_len whose collapsed prefix differs from the one
\* at current_len, and the sentinel 999 exactly when there is none.
C22_NextLevelIsFirstDifferingBoundary ==
    mode = "next_level" /\ fout.called = 1 =>
        LET differing == DifferingBoundaries(fin.code, fin.current_len)
        IN  /\ differing = {} <=> fout.value = NoFurtherLevel
            /\ differing # {} =>
                  /\ fout.value \in differing
                  /\ \A b \in differing : fout.value <= b

\* L01XX05 at length 4: the prefix of length 5 collapses to L01X again, so
\* the boundary 5 is passed over and 7 is returned.
C22_Witness ==
    /\ mode = "next_level" /\ fout.called = 1
    /\ fin.code = <<"L", "0", "1", "X", "X", "0", "5">>
    /\ fin.current_len = AtcLevels[3]
    /\ fout.value = AtcLevels[5]

\* L01XXXX at length 4 has no boundary left that differs.
C22_SentinelCase ==
    /\ mode = "next_level" /\ fout.called = 1
    /\ fin.code = <<"L", "0", "1", "X", "X", "X", "X">>
    /\ fin.current_len = AtcLevels[3]
    /\ fout.value = NoFurtherLevel

(***************************************************************************)
(* The shape of the ATC trie (checked under SpecAtc)                      *)
(***************************************************************************)
\* The escaped product identifiers of the input are pairwise distinct.
DistinctEscapedIds ==
    \A i, j \in 1..Len(aprods) :
        i # j => escape_product_number(aprods[i].product_number)
                    # escape_product_number(aprods[j].product_number)

\* C21: every directory node of the trie has at least two children, given
\* pairwise distinct escaped product identifiers: a subtree with one child
\* is merged into its parent and a substance folder is made for two or more
\* products only.
C21_NoSingleChildDir ==
    atrie.built /\ DistinctEscapedIds =>
        \A d \in DirsIn(atrie.trie) : Cardinality(DOMAIN d.children) >= 2

\* A trie with a folder inside a folder, built from distinct identifiers.
C21_Witness ==
    /\ atrie.built /\ DistinctEscapedIds
    /\ \E d \in DirsIn(atrie.trie) :
          \E k \in DOMAIN d.children : d.children[k].kind = "dir"

\* The products in another iteration order.
Orders(n) == {p \in [1..n -> 1..n] : \A i, j \in 1..n : i # j => p[i] # p[j]}
Reordered(products, p) == [i \in 1..Len(products) |-> products[p[i]]]

\* C23: the trie does not depend on the order in which the products are
\* supplied: the same products in any other order give the same folders,
\* leaves and nesting.
C23_TrieIsOrderIndependent ==
    atrie.built =>
        \A p \in Orders(Len(aprods)) :
            build_atc_trie(Reordered(aprods, p)) = atrie.trie

\* The leaves of a trie, each with the names that lead to it.
RECURSIVE LeafPaths(_)
LeafPaths(trie) ==
    {[path |-> <<k>>, med |-> trie[k].med, docs |-> trie[k].docs]
        : k \in {l \in DOMAIN trie : trie[l].kind = "leaf"}}
    \cup UNION {{[path |-> <<k>> \o leaf.path, med |-> leaf.med, docs |-> leaf.docs]
                    : leaf \in LeafPaths(trie[k].children)}
                 : k \in {l \in DOMAIN trie : trie[l].kind = "dir"}}

\* C24: with pairwise distinct escaped product identifiers each product is
\* exactly one leaf of the trie, none dropped and none duplicated, and every
\* leaf carries the non-empty document list of its product.
C24_ProductsAreConserved ==
    atrie.built /\ DistinctEscapedIds =>
        /\ \A i \in 1..Len(aprods) :
              Cardinality({leaf \in LeafPaths(atrie.trie) :
                              leaf.med = aprods[i].product_number}) = 1
        /\ \A leaf \in LeafPaths(atrie.trie) :
              /\ leaf.docs # <<>>
              /\ \E i \in 1..Len(aprods) :
                    leaf.med = aprods[i].product_number /\ leaf.docs = aprods[i].docs

\* Four products, two of them inside a folder, all four leaves.
C24_Witness ==
    /\ atrie.built /\ DistinctEscapedIds
    /\ Len(aprods) = MaxProducts
    /\ Cardinality(LeafPaths(atrie.trie)) = MaxProducts
    /\ \E leaf \in LeafPaths(atrie.trie) : Len(leaf.path) >= 2
    /\ \E leaf \in LeafPaths(atrie.trie) : Len(leaf.docs) = 2

\* The recursive build_level calls below one call: each with its prefix
\* length, the prefix length of its caller and its depth below the first call.
RECURSIVE RecursiveCalls(_, _, _, _)
RecursiveCalls(codes_products, prefix_len, parent_prefix, depth) ==
    IF codes_products = <<>> THEN {}
    ELSE
      LET groups == GroupByPrefix(<<>>, codes_products, prefix_len)
          NextOf(g) == get_next_meaningful_level(g.sub_codes[1].code, prefix_len)
          Call(g, parent) ==
            {[prefix_len |-> NextOf(g), caller_len |-> prefix_len, depth |-> depth + 1]}
                \cup RecursiveCalls(g.sub_codes, NextOf(g), parent, depth + 1)
          Recursion(g) ==
            IF IsDuplicatePrefix(g.prefix, parent_prefix)
            THEN IF NextOf(g) >= NoFurtherLevel THEN {} ELSE Call(g, parent_prefix)
            ELSE IF CountProducts(g.sub_codes) = 1 THEN {}
            ELSE IF NextOf(g) >= NoFurtherLevel THEN {}
            ELSE IF Len(g.sub_codes) = 1 /\ Len(g.sub_codes[1].code) <= prefix_len THEN {}
            ELSE Call(g, g.prefix)
      IN  UNION {Recursion(groups[i]) : i \in 1..Len(groups)}

CallsOfBuild == RecursiveCalls(GroupByAtc(<<>>, aprods), 0, <<>>, 0)

Boundaries == {1, 3, 4, 5, 7}

\* C25: build_atc_trie terminates: every recursive call of build_level has a
\* prefix length above its caller's, a boundary of {1,3,4,5,7} and never the
\* sentinel, so the recursion is no deeper than there are boundaries.
C25_RecursionClimbsTheBoundaries ==
    atrie.built =>
        \A c \in CallsOfBuild :
            /\ c.prefix_len > c.caller_len
            /\ c.prefix_len \in Boundaries
            /\ c.prefix_len # NoFurtherLevel
            /\ c.depth <= Cardinality(Boundaries)

\* Two products with one full code: build_level recurses through all five
\* boundaries and the trie is built.
C25_Witness ==
    /\ atrie.built
    /\ atrie.trie # <<>>
    /\ \E c \in CallsOfBuild :
          c.depth = Cardinality(Boundaries) /\ c.prefix_len = AtcLength

(***************************************************************************)
(* create_symlink_safe called any number of times on one ViewStatistics   *)
(* (up to MaxStatCalls calls), raw files that are there, missing, or in a *)
(* directory that may not be searched.                                    *)
(***************************************************************************)
MaxStatCalls == 2

StatLinkEntries == {NoEntry, FileEntry, SymlinkEntry(RelPath(Raw1, ProductDir1))}

InitStats ==
    /\ mode = "stats"
    /\ phase = "idle"
    /\ dirs \in [Dirs -> {"absent", "dir", "rodir", "file"}]
    /\ fs \in [AllPaths -> StatLinkEntries \cup {DeniedEntry}]
    /\ \A p \in RawPaths : fs[p] \in {NoEntry, FileEntry, DeniedEntry}
    /\ \A p \in LinkPaths : fs[p] \in StatLinkEntries
    /\ fs[LinkB] = NoEntry
    /\ \A p \in LinkPaths : fs[p].kind # "none" => DirExists(dirs, Parent(p))
    /\ stats = EmptyStats
    /\ idx = 0 /\ crashed = FALSE /\ last = NoCall /\ run1 = NoRun /\ run2 = NoRun
    /\ calls = 0
    /\ ParseIdle /\ ViewIdle /\ AtcIdle /\ RestIdle

\* One call with the stats object of the run; an exception ends the run.
StatsCall(target, link, allow_broken) ==
    /\ mode = "stats"
    /\ ~crashed
    /\ calls < MaxStatCalls
    /\ last' = CallRecord(target, link, allow_broken,
                          create_symlink_safe(fs, dirs, stats, target, link, allow_broken))
    /\ fs' = last'.post_fs
    /\ dirs' = last'.post_dirs
    /\ stats' = last'.post_stats
    /\ crashed' = last'.raised
    /\ calls' = calls + 1
    /\ UNCHANGED <<mode, phase, idx, run1, run2, parseVars, viewVars, atcVars, restVars>>

NextStats == \E t \in RawPaths, l \in LinkPaths, ab \in BOOLEAN : StatsCall(t, l, ab)

SpecStats == InitStats /\ [][NextStats]_vars

\* The outcome counters a call changed, and by how much.
CreatedBy(c) == c.post_stats.symlinks_created - c.pre_stats.symlinks_created
SkippedBy(c) == c.post_stats.symlinks_skipped - c.pre_stats.symlinks_skipped
ErrorsBy(c) == Len(c.post_stats.errors) - Len(c.pre_stats.errors)

\* C26: every call that returns changes exactly one of symlinks_created,
\* symlinks_skipped and errors, by exactly one; it returns True exactly when
\* that one is symlinks_created; no counter decreases; and symlinks_broken
\* never exceeds symlinks_created.
C26_OneOutcomePerCall ==
    /\ stats.symlinks_broken <= stats.symlinks_created
    /\ last.called /\ ~last.raised =>
          /\ {CreatedBy(last), SkippedBy(last), ErrorsBy(last)} = {0, 1}
          /\ CreatedBy(last) + SkippedBy(last) + ErrorsBy(last) = 1
          /\ last.ret <=> CreatedBy(last) = 1
          /\ last.post_stats.symlinks_broken >= last.pre_stats.symlinks_broken
          /\ last.post_stats.dirs_created >= last.pre_stats.dirs_created

\* The part of C26 that the code keeps: the accounting of every call whose
\* target can be examined.
C26_OneOutcomeWhenTargetCanBeExamined ==
    /\ stats.symlinks_broken <= stats.symlinks_created
    /\ last.called /\ ~last.raised /\ ~StatRaises(last.pre_fs, last.target) =>
          /\ CreatedBy(last) + SkippedBy(last) + ErrorsBy(last) = 1
          /\ {CreatedBy(last), SkippedBy(last), ErrorsBy(last)} = {0, 1}
          /\ last.ret <=> CreatedBy(last) = 1
          /\ last.post_stats.symlinks_broken >= last.pre_stats.symlinks_broken
          /\ last.post_stats.dirs_created >= last.pre_stats.dirs_created

(***************************************************************************)
(* The on-demand resolver (checked under SpecPure)                        *)
(***************************************************************************)
\* The chain cannot be followed to its end within the hop bound: it is
\* cyclic, or it is followed link by link and has more links than hops.
ExceedsHops(c) == c.end = "loop" \/ (c.absolute /\ c.links > MaxHops)

\* C27: a chain longer than the hop bound of 10, or cyclic, is a resolution
\* failure: the resolver returns no path (never an intermediate link as if
\* it were the final target) and download_from_symlink reports an error.
C27_ExceedingHopsIsFailure ==
    mode = "resolve" /\ fout.called = 1 /\ ExceedsHops(fin) =>
        /\ fout.value.outcome = "error"
        /\ ~IsSymlinkAt(fin, fout.value.raw_path.path)

\* The part of C27 that the code keeps: a chain within the hop bound that is
\* not cyclic is followed to its end in _raw/, and the URL of that end is
\* what is downloaded.
C27_ChainWithinBoundIsResolved ==
    mode = "resolve" /\ fout.called = 1 /\ ~ExceedsHops(fin) =>
        /\ fout.value.outcome = "download"
        /\ fout.value.raw_path = Resolved(fin.links + 1)

(***************************************************************************)
(* create_url_symlinks.py: process_directory run twice over one directory *)
(* of up to MaxUrlFiles files with names of up to MaxUrlName characters.  *)
(* A directory maps the names of its entries to "file" or to the text of  *)
(* a symlink.                                                             *)
(***************************************************************************)
MaxUrlName == 2
MaxUrlFiles == 2

SPECIAL_CHARS == {"#", "%", "?", "&", "+"}
UrlAlphabet == {"a", "#", "%"}

needs_escaping(name) == \E i \in 1..Len(name) : name[i] \in SPECIAL_CHARS

\* urllib.parse.quote(name, safe='')
PercentCode == ( "#" :> <<"%", "2", "3">> @@ "%" :> <<"%", "2", "5">> )
RECURSIVE Quote(_)
Quote(name) ==
    IF name = <<>> THEN <<>>
    ELSE (IF Head(name) \in DOMAIN PercentCode THEN PercentCode[Head(name)] ELSE <<Head(name)>>)
            \o Quote(Tail(name))

\* The directory after create_escaped_symlink, and whether a link was made.
create_escaped_symlink(dir, name) ==
    IF ~needs_escaping(name) THEN [dir |-> dir, created |-> FALSE]
    ELSE IF Quote(name) \in DOMAIN dir THEN [dir |-> dir, created |-> FALSE]
    ELSE [dir |-> [n \in DOMAIN dir \cup {Quote(name)} |->
                      IF n = Quote(name) THEN name ELSE dir[n]],
          created |-> TRUE]

\* The loop over the names os.walk listed when it entered the directory.
RECURSIVE ProcessFiles(_, _, _)
ProcessFiles(dir, files, count) ==
    IF files = {} THEN [dir |-> dir, count |-> count]
    ELSE LET filename == CHOOSE f \in files : TRUE
             made == create_escaped_symlink(dir, filename)
         IN  ProcessFiles(made.dir, files \ {filename},
                          IF made.created THEN count + 1 ELSE count)

process_directory(dir) == ProcessFiles(dir, DOMAIN dir, 0)

UrlNames == UNION {[1..k -> UrlAlphabet] : k \in 1..MaxUrlName}

InitUrlSymlinks ==
    /\ mode = "url_symlinks"
    /\ \E names \in SUBSET UrlNames :
          /\ Cardinality(names) <= MaxUrlFiles
          /\ fin = [n \in names |-> "file"]
    /\ fout = NotCalled

ProcessDirectory ==
    /\ mode = "url_symlinks"
    /\ fout.called = 0
    /\ fout' = [called |-> 1, value |-> process_directory(fin), again |-> <<>>]
    /\ UNCHANGED <<mode, phase, fin, buildVars, emaVars, parseVars, viewVars, atcVars>>

\* The next build runs it over the directory the first run left.
ProcessDirectoryAgain ==
    /\ mode = "url_symlinks"
    /\ fout.called = 1
    /\ fout' = [fout EXCEPT !.called = 2, !.again = process_directory(fout.value.dir)]
    /\ UNCHANGED <<mode, phase, fin, buildVars, emaVars, parseVars, viewVars, atcVars>>

(***************************************************************************)
(* download_ema_file.py: download_from_url called twice for one URL.  The *)
(* network answers each attempt: "ok" (the whole file arrives), "refused" *)
(* (requests.get or raise_for_status raises, nothing is written) or       *)
(* "broken" (the stream breaks after open(dest, 'wb'), leaving a part).   *)
(***************************************************************************)
MAX_RETRIES == 3

NetworkAnswers == {"ok", "refused", "broken"}

\* for attempt in range(retries), from attempt number `attempt` on
RECURSIVE Attempts(_, _, _, _)
Attempts(dest, net, attempt, retries) ==
    IF attempt > retries THEN [ret |-> FALSE, dest |-> dest, attempts |-> retries]
    ELSE IF net[attempt] = "ok" THEN [ret |-> TRUE, dest |-> "complete", attempts |-> attempt]
    ELSE IF net[attempt] = "refused" THEN Attempts(dest, net, attempt + 1, retries)
    ELSE Attempts("partial", net, attempt + 1, retries)

download_file(dest, net, retries) == Attempts(dest, net, 1, retries)

\* if dest.exists(): return True
download_from_url(dest, net) ==
    IF dest # "absent" THEN [ret |-> TRUE, dest |-> dest, attempts |-> 0]
    ELSE download_file(dest, net, MAX_RETRIES)

InitDownload ==
    /\ mode = "download"
    /\ \E dest \in {"absent", "complete"}, first, later \in [1..MAX_RETRIES -> NetworkAnswers] :
          fin = [dest |-> dest, first |-> first, later |-> later]
    /\ fout = NotCalled

DownloadFromUrl ==
    /\ mode = "download"
    /\ fout.called = 0
    /\ fout' = [called |-> 1, value |-> download_from_url(fin.dest, fin.first), again |-> <<>>]
    /\ UNCHANGED <<mode, phase, fin, buildVars, emaVars, parseVars, viewVars, atcVars>>

DownloadFromUrlAgain ==
    /\ mode = "download"
    /\ fout.called = 1
    /\ fout' = [fout EXCEPT !.called = 2,
                            !.again = download_from_url(fout.value.dest, fin.later)]
    /\ UNCHANGED <<mode, phase, fin, buildVars, emaVars, parseVars, viewVars, atcVars>>

InitTools ==
    /\ InitUrlSymlinks \/ InitDownload
    /\ phase = "idle"
    /\ BuildIdle /\ EmaIdle /\ ParseIdle /\ ViewIdle /\ AtcIdle

NextTools ==
    \/ ProcessDirectory \/ ProcessDirectoryAgain
    \/ DownloadFromUrl \/ DownloadFromUrlAgain

SpecTools == InitTools /\ [][NextTools]_vars

(***************************************************************************)
(* Claims about the two tools (checked under SpecTools)                   *)
(***************************************************************************)
\* C28: process_directory is idempotent: a second run over the directory the
\* first run left creates no further symlink and returns 0.
C28_SecondRunCreatesNothing ==
    mode = "url_symlinks" /\ fout.called = 2 =>
        /\ fout.again.count = 0
        /\ fout.again.dir = fout.value.dir

\* The part of C28 that the code keeps: one run gives every file whose name
\* needs escaping a link under its quoted name, pointing at the file, and
\* counts the links it made.
C28_FirstRunLinksEscapedNames ==
    mode = "url_symlinks" /\ fout.called >= 1 =>
        /\ \A n \in DOMAIN fin :
              /\ fout.value.dir[n] = fin[n]
              /\ needs_escaping(n) /\ Quote(n) \notin DOMAIN fin
                    => Quote(n) \in DOMAIN fout.value.dir /\ fout.value.dir[Quote(n)] = n
        /\ fout.value.count = Cardinality(DOMAIN fout.value.dir) - Cardinality(DOMAIN fin)

\* C29: download_from_url returns True only with a completely downloaded
\* file at the destination, and after a download that failed in all its
\* attempts a later call for the same URL attempts the download again.
C29_FailedDownloadIsRetried ==
    mode = "download" =>
        /\ fout.called >= 1 /\ fout.value.ret => fout.value.dest = "complete"
        /\ fout.called = 2 /\ fout.again.ret => fout.again.dest = "complete"
        /\ fout.called = 2 /\ ~fout.value.ret =>
              /\ fout.value.attempts = MAX_RETRIES
              /\ fout.again.attempts >= 1

\* The part of C29 that the code keeps: download_file makes at most
\* `retries` attempts, and a failed download that wrote nothing is attempted
\* again by the later call.
C29_RetriedWhenNothingWasWritten ==
    mode = "download" =>
        /\ fout.called >= 1 => fout.value.attempts <= MAX_RETRIES
        /\ fout.called = 2 /\ ~fout.value.ret /\ fout.value.dest = "absent" =>
              /\ fout.value.attempts = MAX_RETRIES
              /\ fout.again.attempts >= 1
              /\ fout.again.ret => fout.again.dest = "complete"

(***************************************************************************)
(* Claims about the levels of the date view (checked under Spec)          *)
(***************************************************************************)
\* The dated items of the scan whose date begins with `prefix` (a year, or
\* a whole date), by position.
DatedWith(prefix) ==
    {i \in 1..Len(vscan.items) :
        SubSeq(vscan.items[i].date_str, 1, Len(prefix)) = prefix}

YearOf(date_str) == SubSeq(date_str, 1, 4)

\* 'YYYY-MM-DD title[ext]'
DirectLinkName(it) == it.date_str \o <<" ">> \o it.title \o it.ext

\* `path` holds the link to the item, or what was in its place before the
\* run (then the link is skipped).
LinkedAt(w, path, it) ==
    IF path \in w.files THEN path \notin DOMAIN w.links
    ELSE path \in DOMAIN w.links /\ w.links[path] = it.source

DateViewRan == mode = "date" /\ phase \in {"run2", "done"} /\ ~vrun1.crashed

\* C30: generate_date_view creates a year directory exactly for the years
\* with two or more dated items and a date directory exactly for the dates
\* with two or more items; the single item of a year is linked in the target
\* directory as 'YYYY-MM-DD title[ext]', and the single item of a date inside
\* a year directory is linked there as 'YYYY-MM-DD title[ext]'.
C30_SingleItemLevelsCollapse ==
    DateViewRan =>
        /\ \A i \in 1..Len(vscan.items) :
              LET it == vscan.items[i]
                  year == YearOf(it.date_str)
                  in_year == Cardinality(DatedWith(year))
                  on_date == Cardinality(DatedWith(it.date_str))
              IN  /\ (<<year>> \in vrun1.dirs) <=> (in_year >= 2)
                  /\ (<<year, it.date_str>> \in vrun1.dirs) <=> (on_date >= 2)
                  /\ <<it.date_str>> \notin vrun1.dirs
                  /\ in_year = 1 => LinkedAt(vrun1, <<DirectLinkName(it)>>, it)
                  /\ in_year >= 2 /\ on_date = 1
                        => LinkedAt(vrun1, <<year, DirectLinkName(it)>>, it)
                  /\ on_date >= 2
                        => /\ <<DirectLinkName(it)>> \notin DOMAIN vrun1.links
                           /\ <<year, DirectLinkName(it)>> \notin DOMAIN vrun1.links
        /\ \A d \in vrun1.dirs :
              /\ Len(d) \in {1, 2}
              /\ Cardinality(DatedWith(d[Len(d)])) >= 2
              /\ Len(d) = 2 => d[1] = YearOf(d[2])
        /\ \A p \in DOMAIN vrun1.links :
              \E i \in 1..Len(vscan.items) :
                  /\ vrun1.links[p] = vscan.items[i].source
                  /\ Len(p) = 1 + (IF Cardinality(DatedWith(YearOf(vscan.items[i].date_str))) >= 2
                                   THEN 1 ELSE 0)
                               + (IF Cardinality(DatedWith(vscan.items[i].date_str)) >= 2
                                   THEN 1 ELSE 0)

\* A run with a year of one item, and a year of several items that has a
\* date of one item and a date of several.
C30_Witness ==
    /\ DateViewRan
    /\ \E i, j, k \in 1..Len(vscan.items) :
          /\ Cardinality(DatedWith(YearOf(vscan.items[i].date_str))) = 1
          /\ <<DirectLinkName(vscan.items[i])>> \in DOMAIN vrun1.links
          /\ Cardinality(DatedWith(YearOf(vscan.items[j].date_str))) >= 2
          /\ Cardinality(DatedWith(vscan.items[j].date_str)) = 1
          /\ <<YearOf(vscan.items[j].date_str), DirectLinkName(vscan.items[j])>>
                \in DOMAIN vrun1.links
          /\ Cardinality(DatedWith(vscan.items[k].date_str)) >= 2
          /\ <<YearOf(vscan.items[k].date_str), vscan.items[k].date_str>> \in vrun1.dirs

====
